---- MODULE Spec2Model ----
(***************************************************************************)
(* Statement ingestion and transaction classification of finance-tracker:  *)
(* the asynchronous statement job (BankStatementController), the service   *)
(* pipeline (BankStatementService.processStatement), the classification    *)
(* orchestrator (categorizeTransactions / smartCategorizeTransactions),    *)
(* the external classifier wrapper (AIService) and the statement store     *)
(* (BankStatementRepository).                                              *)
(*                                                                         *)
(* Strings of the program are sequences of one-character strings, an       *)
(* optional value is a sequence of length 0 (absent) or 1 (present), and   *)
(* a confidence is an integer number of hundredths (0.3 is 30).            *)
(***************************************************************************)
EXTENDS Integers, Sequences, FiniteSets, TLC

VARIABLES
  configured,     \* AIService.openai is non-null (an API key was configured)
  api,            \* what the external API does during the run: "any", "up" or "down"
  dpc,            \* position of BankStatementController.deleteStatement
  partners,       \* PartnerService.partners: the partners with a webhook secret
  request,        \* the webhook request that was received
  wpc,            \* position of WebhookController.handleWebhook
  users,          \* the user rows: the e-mail addresses of the stored users
  hookTransactions, \* the transaction rows created from webhooks
  response,       \* the HTTP response of handleWebhook (optional)
  file,           \* the uploaded file: its type and content (NoFile: content not looked at)
  ledger,         \* the transactions the parser extracts from the uploaded file
  status,         \* BankStatement.status of the statement row ("none": no row yet)
  errorMessage,   \* BankStatement.errorMessage (optional)
  analysisResult, \* BankStatement.analysisResult (optional)
  rows,           \* the statementTransaction rows stored for the statement
  cpc,            \* position of BankStatementController.processStatementAsync
  timer,          \* the outer timeout of processStatementAsync: "off", "armed", "fired"
  spc,            \* position of BankStatementService.processStatement
  thrown,         \* the error processStatement threw (optional message)
  svcResult,      \* the analysis processStatement returned (optional)
  caught,         \* the error processStatementAsync caught (optional message)
  updIdx,         \* index of the next categorized transaction to write back
  strategy,       \* "none", "direct" or "grouped"
  opc,            \* position of the classification orchestrator
  batchStart,     \* loop variable i of both strategies (0-based)
  tasks,          \* direct strategy: the async tasks of the current batch
  categorized,    \* categorizedTransactions, the orchestrator's result
  uniqueTx,       \* grouped strategy: uniqueTransactions (ledger indices)
  aiMap,          \* grouped strategy: aiCategorizationMap (key -> optional entry)
  batchPos,       \* grouped strategy: position of the inner for-of loop in the batch
  gcall,          \* grouped strategy: the representative being processed
  consecutiveFailures, \* grouped strategy: the circuit breaker's counter
  deadlinePassed, \* Date.now() - startTime > AI_PROCESSING_TIMEOUT
  inflight,       \* the requests to the external classifier that are in flight
  hist            \* history of the run: what the external classifier did

vars == << configured, api, dpc, partners, request, wpc, users, hookTransactions,
           response,
           file, ledger, status, errorMessage, analysisResult, rows, cpc,
           timer, spc, thrown, svcResult, caught, updIdx, strategy, opc, batchStart, tasks, categorized,
           uniqueTx, aiMap, batchPos, gcall, consecutiveFailures,
           deadlinePassed, inflight, hist >>

\* the state of the webhook handler
hookVars == << partners, request, wpc, users, hookTransactions, response >>

(***************************************************************************)
(* Optional values and JavaScript's `a || b`.                              *)
(***************************************************************************)
None == << >>
Some(v) == << v >>
IsPresent(o) == o # None

\* a || d for a string field: undefined, null and '' are falsy
OrStr(o, d) == IF o # None /\ o[1] # "" THEN o[1] ELSE d
\* a || d for a character-sequence field: undefined, null and '' are falsy
OrSeq(o, d) == IF o # None /\ o[1] # << >> THEN o[1] ELSE d
\* a || d for a number: undefined, null and 0 are falsy
OrNum(o, d) == IF o # None /\ o[1] # 0 THEN o[1] ELSE d

\* no webhook request has been received
NoRequest == [partner |-> << >>, rawBody |-> 0, signature |-> None]
NoWebhook ==
  /\ partners = {}
  /\ request = NoRequest
  /\ wpc = "idle"
  /\ users = {}
  /\ hookTransactions = << >>
  /\ response = None

(***************************************************************************)
(* Characters.                                                             *)
(***************************************************************************)
LowerAlpha == <<"a", "b", "c", "d", "e", "f", "g", "h", "i", "j", "k", "l", "m", "n", "o", "p", "q", "r", "s", "t", "u", "v", "w", "x", "y", "z">>
UpperAlpha == <<"A", "B", "C", "D", "E", "F", "G", "H", "I", "J", "K", "L", "M", "N", "O", "P", "Q", "R", "S", "T", "U", "V", "W", "X", "Y", "Z">>
DigitChars == {"0", "1", "2", "3", "4", "5", "6", "7", "8", "9"}
Ran(s) == {s[k] : k \in 1..Len(s)}
IsSpace(c) == c = " "
\* \w of a JavaScript regular expression: [A-Za-z0-9_]
IsWordChar(c) == c \in Ran(LowerAlpha) \cup Ran(UpperAlpha) \cup DigitChars \cup {"_"}
ToLowerChar(c) ==
  IF c \in Ran(UpperAlpha)
    THEN LowerAlpha[CHOOSE k \in 1..Len(UpperAlpha) : UpperAlpha[k] = c]
    ELSE c

Min2(a, b) == IF a < b THEN a ELSE b
MinOf(S) == CHOOSE x \in S : \A y \in S : x <= y
MaxOf(S) == CHOOSE x \in S : \A y \in S : x >= y

\* the elements of s at the indices of keep, in order
PickIdx(s, keep) ==
  LET F[k \in 0..Len(s)] ==
        IF k = 0 THEN << >>
        ELSE IF k \in keep THEN Append(F[k-1], s[k]) ELSE F[k-1]
  IN F[Len(s)]

toLowerCase(s) == [k \in 1..Len(s) |-> ToLowerChar(s[k])]

\* String.prototype.trim
trim(s) ==
  LET solid == {k \in 1..Len(s) : ~IsSpace(s[k])}
  IN IF solid = {} THEN << >> ELSE SubSeq(s, MinOf(solid), MaxOf(solid))

\* String.prototype.includes
Includes(s, kw) ==
  \E k \in 1..(Len(s) - Len(kw) + 1) : SubSeq(s, k, k + Len(kw) - 1) = kw

\* trim().split(/\s+/): the maximal runs of non-space characters
SplitWords(s) ==
  LET F[k \in 0..Len(s)] ==
        IF k = 0 THEN [w |-> << >>, cur |-> << >>]
        ELSE LET p == F[k-1]
             IN IF IsSpace(s[k])
                  THEN IF p.cur = << >> THEN p
                       ELSE [w |-> Append(p.w, p.cur), cur |-> << >>]
                  ELSE [w |-> p.w, cur |-> Append(p.cur, s[k])]
      r == F[Len(s)]
  IN IF r.cur = << >> THEN r.w ELSE Append(r.w, r.cur)

\* Array.prototype.join(' ')
JoinWords(ws) ==
  LET F[k \in 0..Len(ws)] ==
        IF k = 0 THEN << >>
        ELSE IF k = 1 THEN ws[1]
        ELSE F[k-1] \o << " " >> \o ws[k]
  IN F[Len(ws)]

FirstN(s, n) == SubSeq(s, 1, IF Len(s) < n THEN Len(s) ELSE n)

\* the category -> keywords tables of basicCategorization and of
\* AIService.fallbackCategorization, in their order of declaration
BasicCategories ==
  << [category |-> "Food & Dining",
       keywords |-> << <<"r", "e", "s", "t", "a", "u", "r", "a", "n", "t">>,
                       <<"f", "o", "o", "d">>,
                       <<"l", "u", "n", "c", "h">>,
                       <<"d", "i", "n", "n", "e", "r">>,
                       <<"c", "a", "f", "e">>,
                       <<"p", "i", "z", "z", "a">>,
                       <<"c", "h", "i", "c", "k", "e", "n">>,
                       <<"m", "c", "d", "o", "n", "a", "l", "d">>,
                       <<"k", "f", "c">> >>],
     [category |-> "Transportation",
       keywords |-> << <<"u", "b", "e", "r">>,
                       <<"t", "a", "x", "i">>,
                       <<"b", "u", "s">>,
                       <<"t", "r", "a", "n", "s", "p", "o", "r", "t">>,
                       <<"f", "u", "e", "l">>,
                       <<"p", "e", "t", "r", "o", "l">>,
                       <<"g", "a", "s">> >>],
     [category |-> "Shopping",
       keywords |-> << <<"s", "h", "o", "p", "r", "i", "t", "e">>,
                       <<"m", "a", "l", "l">>,
                       <<"s", "t", "o", "r", "e">>,
                       <<"m", "a", "r", "k", "e", "t">>,
                       <<"p", "u", "r", "c", "h", "a", "s", "e">>,
                       <<"b", "u", "y">> >>],
     [category |-> "Bills & Utilities",
       keywords |-> << <<"e", "l", "e", "c", "t", "r", "i", "c">>,
                       <<"w", "a", "t", "e", "r">>,
                       <<"p", "h", "o", "n", "e">>,
                       <<"i", "n", "t", "e", "r", "n", "e", "t">>,
                       <<"d", "s", "t", "v">>,
                       <<"c", "a", "b", "l", "e">>,
                       <<"s", "u", "b", "s", "c", "r", "i", "p", "t", "i", "o", "n">> >>],
     [category |-> "Banking",
       keywords |-> << <<"b", "a", "n", "k">>,
                       <<"a", "t", "m">>,
                       <<"t", "r", "a", "n", "s", "f", "e", "r">>,
                       <<"f", "e", "e">>,
                       <<"c", "h", "a", "r", "g", "e">> >>],
     [category |-> "Healthcare",
       keywords |-> << <<"h", "o", "s", "p", "i", "t", "a", "l">>,
                       <<"c", "l", "i", "n", "i", "c">>,
                       <<"p", "h", "a", "r", "m", "a", "c", "y">>,
                       <<"m", "e", "d", "i", "c", "a", "l">>,
                       <<"d", "o", "c", "t", "o", "r">> >>],
     [category |-> "Entertainment",
       keywords |-> << <<"c", "i", "n", "e", "m", "a">>,
                       <<"m", "o", "v", "i", "e">>,
                       <<"g", "a", "m", "e">>,
                       <<"e", "n", "t", "e", "r", "t", "a", "i", "n", "m", "e", "n", "t">>,
                       <<"m", "u", "s", "i", "c">> >>] >>

AIFallbackCategories ==
  << [category |-> "Food & Dining",
       keywords |-> << <<"r", "e", "s", "t", "a", "u", "r", "a", "n", "t">>,
                       <<"f", "o", "o", "d">>,
                       <<"l", "u", "n", "c", "h">>,
                       <<"d", "i", "n", "n", "e", "r">>,
                       <<"c", "a", "f", "e">>,
                       <<"p", "i", "z", "z", "a">>,
                       <<"c", "h", "i", "c", "k", "e", "n">>,
                       <<"m", "c", "d", "o", "n", "a", "l", "d">>,
                       <<"k", "f", "c">> >>],
     [category |-> "Transportation",
       keywords |-> << <<"u", "b", "e", "r">>,
                       <<"t", "a", "x", "i">>,
                       <<"b", "u", "s">>,
                       <<"t", "r", "a", "n", "s", "p", "o", "r", "t">>,
                       <<"f", "u", "e", "l">>,
                       <<"p", "e", "t", "r", "o", "l">>,
                       <<"g", "a", "s">> >>],
     [category |-> "Shopping",
       keywords |-> << <<"s", "h", "o", "p", "r", "i", "t", "e">>,
                       <<"m", "a", "l", "l">>,
                       <<"s", "t", "o", "r", "e">>,
                       <<"m", "a", "r", "k", "e", "t">>,
                       <<"p", "u", "r", "c", "h", "a", "s", "e">>,
                       <<"b", "u", "y">> >>],
     [category |-> "Bills & Utilities",
       keywords |-> << <<"e", "l", "e", "c", "t", "r", "i", "c">>,
                       <<"w", "a", "t", "e", "r">>,
                       <<"p", "h", "o", "n", "e">>,
                       <<"i", "n", "t", "e", "r", "n", "e", "t">>,
                       <<"d", "s", "t", "v">>,
                       <<"c", "a", "b", "l", "e">>,
                       <<"s", "u", "b", "s", "c", "r", "i", "p", "t", "i", "o", "n">> >>],
     [category |-> "Banking & Finance",
       keywords |-> << <<"b", "a", "n", "k">>,
                       <<"a", "t", "m">>,
                       <<"t", "r", "a", "n", "s", "f", "e", "r">>,
                       <<"f", "e", "e">>,
                       <<"c", "h", "a", "r", "g", "e">>,
                       <<"i", "n", "t", "e", "r", "e", "s", "t">> >>],
     [category |-> "Healthcare",
       keywords |-> << <<"h", "o", "s", "p", "i", "t", "a", "l">>,
                       <<"c", "l", "i", "n", "i", "c">>,
                       <<"p", "h", "a", "r", "m", "a", "c", "y">>,
                       <<"m", "e", "d", "i", "c", "a", "l">>,
                       <<"d", "o", "c", "t", "o", "r">> >>],
     [category |-> "Entertainment",
       keywords |-> << <<"c", "i", "n", "e", "m", "a">>,
                       <<"m", "o", "v", "i", "e">>,
                       <<"g", "a", "m", "e">>,
                       <<"e", "n", "t", "e", "r", "t", "a", "i", "n", "m", "e", "n", "t">>,
                       <<"m", "u", "s", "i", "c">> >>] >>


StopWords == { <<"t", "h", "e">>, <<"a", "n", "d">>, <<"f", "o", "r">>, <<"w", "i", "t", "h">>, <<"f", "r", "o", "m">>, <<"p", "a", "y", "m", "e", "n", "t">>, <<"t", "r", "a", "n", "s", "f", "e", "r">> }
Unknown == <<"U", "n", "k", "n", "o", "w", "n">>

(***************************************************************************)
(* BankStatementService: normalizeDescription and the fallback classifier. *)
(***************************************************************************)
\* .replace(/\d+/g, '')
RemoveNumbers(s) == PickIdx(s, {k \in 1..Len(s) : s[k] \notin DigitChars})
\* .replace(/[^\w\s]/g, ' ')
ReplaceSpecial(s) ==
  PickIdx([k \in 1..Len(s) |->
             IF IsWordChar(s[k]) \/ IsSpace(s[k]) THEN s[k] ELSE " "], 1..Len(s))
\* .replace(/\s+/g, ' ')
SqueezeSpaces(s) ==
  PickIdx(s, {k \in 1..Len(s) : ~(IsSpace(s[k]) /\ k > 1 /\ IsSpace(s[k-1]))})

normalizeDescription(description) ==
  trim(SqueezeSpaces(ReplaceSpecial(RemoveNumbers(toLowerCase(description)))))

\* the first category of the table one of whose keywords the text includes
LookupCategory(table, lowerDesc) ==
  LET hits == {c \in 1..Len(table) :
                 \E k \in 1..Len(table[c].keywords) :
                    Includes(lowerDesc, table[c].keywords[k])}
  IN IF hits = {} THEN "Other" ELSE table[MinOf(hits)].category

basicCategorization(description) ==
  LookupCategory(BasicCategories, toLowerCase(description))

extractMerchantFromDescription(description) ==
  JoinWords(FirstN(SplitWords(trim(description)), 3))

(***************************************************************************)
(* AIService: the fallbacks it returns when the external call fails.       *)
(***************************************************************************)
fallbackCategorization(description) ==
  LET c == LookupCategory(AIFallbackCategories, toLowerCase(description))
  IN [category |-> Some(c),
      confidence |-> Some(IF c = "Other" THEN 30 ELSE 70)]

fallbackMerchantExtraction(description) ==
  LET words == SplitWords(trim(description))
      meaningfulWords ==
        PickIdx(words, {k \in 1..Len(words) :
                          Len(words[k]) > 2 /\ toLowerCase(words[k]) \notin StopWords})
      merchantName == JoinWords(FirstN(meaningfulWords, 2))
  IN [name |-> Some(IF merchantName # << >> THEN merchantName ELSE Unknown),
      confidence |-> Some(IF merchantName # << >> THEN 50 ELSE 10)]


(***************************************************************************)
(* Bounds of the model and constants of the program.                       *)
(***************************************************************************)
MaxDirect == 2   \* direct-strategy ledgers have up to MaxDirect transactions
MaxLarge == 1    \* grouped-strategy ledgers have up to SMART_THRESHOLD + MaxLarge
FairGroups == 3  \* description patterns of the grouped ledger of a fair run
JobBase == 1     \* the ledgers of a whole statement job repeat JobBase base entries
MaxBeyond == 2   \* long direct ledgers have MAX_AI_CALLS_LIMIT + 1..MaxBeyond transactions
MaxPatterns == 51 \* description patterns of the long grouped ledger

SMART_THRESHOLD == 100
BATCH_SIZE == 5
MAX_RETRIES == 1
MAX_AI_CALLS_LIMIT == 30
SMART_BATCH_SIZE == 2
MAX_CONSECUTIVE_FAILURES == 3
AI_PROCESSING_TIMEOUT == 180000
TIMEOUT_MS == 120000

(***************************************************************************)
(* Ledgers: what the parser extracts from the uploaded file.  A ledger     *)
(* repeats a base statement; each repetition carries a later date.         *)
(***************************************************************************)
\* a file of which only the extracted transactions matter
NoFile == [type |-> "any", content |-> << >>]

D_UBER_A == <<"U", "b", "e", "r", " ", "1", "2">>
D_UBER_B == <<"U", "b", "e", "r", " ", "3", "4">>
D_ATM == <<"A", "T", "M", " ", "7">>
D_KFC == <<"k", "f", "c">>
D_ZED == <<"z", "e", "d", "/", "i", "o">>
AI_NAME == <<"A", "c", "m", "e">>

Base == << [description |-> D_UBER_A, amount |-> 1200],
           [description |-> D_ATM, amount |-> 5000],
           [description |-> D_KFC, amount |-> 350],
           [description |-> D_ZED, amount |-> 99],
           [description |-> D_UBER_B, amount |-> 3400] >>

\* n transactions that repeat the first b entries of the base statement
MakeLedger(n, b) ==
  [i \in 1..n |->
     [description |-> Base[((i - 1) % b) + 1].description,
      amount |-> Base[((i - 1) % b) + 1].amount,
      date |-> (i - 1) \div b]]

SmallSizes == 1..MaxDirect
LargeSizes == (SMART_THRESHOLD + 1)..(SMART_THRESHOLD + MaxLarge)
\* the ledgers of a classification run on its own
Ledgers == {MakeLedger(n, Len(Base)) : n \in SmallSizes \cup LargeSizes}
\* the ledgers of a fair run: the direct ones, and a grouped one of
\* SMART_THRESHOLD + 1 transactions with FairGroups description patterns
FairLedgers ==
  {MakeLedger(n, Len(Base)) : n \in SmallSizes}
    \cup {MakeLedger(SMART_THRESHOLD + 1, Min2(FairGroups, Len(Base)))}
\* a statement with the same transaction twice: same description, amount, date
TwinLedger == << MakeLedger(1, 1)[1], MakeLedger(1, 1)[1] >>
\* the ledgers of a statement job; the empty one is a file without transactions
JobLedgers ==
  {MakeLedger(n, Len(Base)) : n \in {0} \cup SmallSizes}
    \cup {MakeLedger(n, Min2(JobBase, Len(Base))) : n \in LargeSizes}
    \cup {TwinLedger}

\* the n-th description pattern of a long statement: "pay aa", "pay ab", ...
Pattern(n) ==
  << "p", "a", "y", " ", LowerAlpha[((n - 1) \div Len(LowerAlpha)) + 1],
     LowerAlpha[((n - 1) % Len(LowerAlpha)) + 1] >>
\* n transactions that repeat the first b description patterns
MakePatternLedger(n, b) ==
  [i \in 1..n |->
     [description |-> Pattern(((i - 1) % b) + 1),
      amount |-> 100 * (((i - 1) % b) + 1),
      date |-> (i - 1) \div b]]
\* the ledgers of a long run: direct ones with more transactions than
\* MAX_AI_CALLS_LIMIT, and a grouped one with MaxPatterns description patterns
LongLedgers ==
  {MakeLedger(MAX_AI_CALLS_LIMIT + n, Len(Base)) : n \in 1..MaxBeyond}
    \cup {MakePatternLedger(SMART_THRESHOLD + 1, Min2(MaxPatterns, SMART_THRESHOLD + 1))}

\* what the fallbacks give for every description of the base statement,
\* computed once
Descriptions ==
  {Base[k].description : k \in 1..Len(Base)}
    \cup {Pattern(n) : n \in 1..Min2(MaxPatterns, SMART_THRESHOLD + 1)}
BasicCategoryOf == [d \in Descriptions |-> basicCategorization(d)]
BasicMerchantOf == [d \in Descriptions |-> extractMerchantFromDescription(d)]
FallbackCategoryOf == [d \in Descriptions |-> fallbackCategorization(d)]
FallbackMerchantOf == [d \in Descriptions |-> fallbackMerchantExtraction(d)]

(***************************************************************************)
(* AIService: categorizeTransaction and extractMerchant.  `out` is what    *)
(* the external API did with the request: "ok" with the parsed reply,      *)
(* "error" (the request failed or the reply was not JSON), "timeout" (the  *)
(* 5 s timer won the race) or "unconfigured" (no client, no request).      *)
(* Both methods catch every error and answer with their fallback.          *)
(***************************************************************************)
NoCatReply == [category |-> None, confidence |-> None]
NoMerReply == [name |-> None, confidence |-> None]
CatReplies == {[category |-> Some("Shopping"), confidence |-> Some(95)], NoCatReply}
MerReplies == {[name |-> Some(AI_NAME), confidence |-> Some(90)], NoMerReply}

\* CatOutcomes without the 5 s timer: a request nobody answers never returns
CatOutcomes_noTimer(cfg) ==
  IF cfg THEN {} ELSE {[kind |-> "unconfigured", reply |-> NoCatReply]}

CatOutcomes(cfg) ==
  IF cfg THEN {[kind |-> "ok", reply |-> r] : r \in CatReplies}
              \cup {[kind |-> k, reply |-> NoCatReply] : k \in {"error", "timeout"}}
         ELSE {[kind |-> "unconfigured", reply |-> NoCatReply]}
MerOutcomes(cfg) ==
  IF cfg THEN {[kind |-> "ok", reply |-> r] : r \in MerReplies}
              \cup {[kind |-> k, reply |-> NoMerReply] : k \in {"error", "timeout"}}
         ELSE {[kind |-> "unconfigured", reply |-> NoMerReply]}

\* the outcomes a request can have under what the external API does during
\* the run: up, every request is answered with a complete reply; down, every
\* request fails; any, each request has any of its outcomes
Answers(outs) ==
  IF api = "up"
    THEN {o \in outs : \/ o.kind = "unconfigured"
                       \/ o.kind = "ok" /\ o.reply.confidence # None}
    ELSE IF api = "down"
      THEN {o \in outs : o.kind \in {"error", "unconfigured"}}
      ELSE outs

categorizeTransaction(description, out) ==
  IF out.kind = "ok"
    THEN [threw |-> FALSE,
          value |-> [category |-> out.reply.category,
                     confidence |-> out.reply.confidence]]
    ELSE [threw |-> FALSE, value |-> FallbackCategoryOf[description]]

extractMerchant(description, out) ==
  IF out.kind = "ok"
    THEN [threw |-> FALSE,
          value |-> [name |-> out.reply.name, confidence |-> out.reply.confidence]]
    ELSE [threw |-> FALSE, value |-> FallbackMerchantOf[description]]

(***************************************************************************)
(* The orchestrator's results.                                             *)
(***************************************************************************)
\* SuccessResult without the defaults of `||`: the reply is passed through
SuccessResult_noDefaults(tx, category, merchant) ==
  [tx |-> tx,
   category |-> category.category,
   merchant |-> merchant.name,
   confidence |-> category.confidence]

\* { ...transaction, category: category?.category || 'Other', ... }
SuccessResult(tx, category, merchant) ==
  [tx |-> tx,
   category |-> Some(OrStr(category.category, "Other")),
   merchant |-> Some(OrSeq(merchant.name,
                           BasicMerchantOf[tx.description])),
   confidence |-> Some(OrNum(category.confidence, 50))]

\* { ...transaction, category: this.basicCategorization(...), ..., confidence: 0.3 }
FallbackResult(tx) ==
  [tx |-> tx,
   category |-> Some(BasicCategoryOf[tx.description]),
   merchant |-> Some(BasicMerchantOf[tx.description]),
   confidence |-> Some(30)]

\* the entry of aiCategorizationMap: a result without the transaction
EntryOf(r) == [category |-> r.category, merchant |-> r.merchant,
               confidence |-> r.confidence]

\* FanOutResult with the default confidence of a classified transaction
FanOutResult_successDefault(tx, entry) ==
  [tx |-> tx,
   category |-> Some(OrStr(IF entry = None THEN None ELSE entry[1].category,
                           BasicCategoryOf[tx.description])),
   merchant |-> Some(OrSeq(IF entry = None THEN None ELSE entry[1].merchant,
                           BasicMerchantOf[tx.description])),
   confidence |-> Some(OrNum(IF entry = None THEN None ELSE entry[1].confidence, 50))]

\* categorization?.category || this.basicCategorization(...), and so on
FanOutResult(tx, entry) ==
  [tx |-> tx,
   category |-> Some(OrStr(IF entry = None THEN None ELSE entry[1].category,
                           BasicCategoryOf[tx.description])),
   merchant |-> Some(OrSeq(IF entry = None THEN None ELSE entry[1].merchant,
                           BasicMerchantOf[tx.description])),
   confidence |-> Some(OrNum(IF entry = None THEN None ELSE entry[1].confidence, 30))]

\* the normalized key of every description of the base statement
NormalizedKey == [d \in Descriptions |->
                    normalizeDescription(d)]
KeyOf(tx) == NormalizedKey[tx.description]
Keys(l) == {KeyOf(l[i]) : i \in 1..Len(l)}

\* the elements of a set of numbers in increasing order
Sorted(S) ==
  [m \in 1..Cardinality(S) |->
     CHOOSE x \in S : Cardinality({y \in S : y < x}) = m - 1]

\* uniqueDescriptions, in insertion order: the description of the first
\* transaction of each group (a description enters the set once)
UniqueDescriptions(l) ==
  LET key == [i \in 1..Len(l) |-> KeyOf(l[i])]
      opens == {i \in 1..Len(l) : \A j \in 1..(i-1) : key[j] # key[i]}
      fresh == {i \in opens :
                  \A j \in opens : j < i => l[j].description # l[i].description}
      order == Sorted(fresh)
  IN [m \in 1..Len(order) |-> l[order[m]].description]

\* UniqueTransactions without the grouping: every transaction stands for itself
UniqueTransactions_ungrouped(l) == [m \in 1..Len(l) |-> m]

\* uniqueTransactions: transactions.find(t => t.description === desc), as indices
UniqueTransactions(l) ==
  LET ds == UniqueDescriptions(l)
  IN [m \in 1..Len(ds) |->
        MinOf({i \in 1..Len(l) : l[i].description = ds[m]})]

\* uniqueTransactions of every ledger of the model, computed once
UniqueTransactionsOf == [l \in Ledgers \cup JobLedgers \cup FairLedgers \cup LongLedgers |-> UniqueTransactions(l)]

\* MAX_AI_CALLS without the limit: every transaction is eligible
MAX_AI_CALLS_noLimit(l) == Len(l)

MAX_AI_CALLS(l) == Min2(MAX_AI_CALLS_LIMIT, Len(l))

(***************************************************************************)
(* History of a run (not program state): for each ledger position that was *)
(* sent to the classifier, what the external API did with its requests;    *)
(* the number of consecutive attempts with a failed request; and the       *)
(* ledger that generateAnalysis was last called on.                        *)
(***************************************************************************)
FreshAttempt == [failed |-> FALSE, timedOut |-> FALSE,
                 catFrom |-> "none", merFrom |-> "none"]
FreshHist(l) == [attempt |-> [s \in 1..Len(l) |-> FreshAttempt],
                 last |-> FreshAttempt,
                 streak |-> 0, tripAt |-> 0, exit |-> "none",
                 aggregated |-> None]

SourceOf(out) == IF out.kind = "ok" THEN "external" ELSE "fallback"
NoteCategory(h, s, out) ==
  [h EXCEPT !.attempt[s] =
     [@ EXCEPT !.failed = @ \/ out.kind \in {"error", "timeout"},
               !.timedOut = @ \/ out.kind = "timeout",
               !.catFrom = SourceOf(out)]]
NoteMerchant(h, s, out) ==
  [h EXCEPT !.attempt[s] =
     [@ EXCEPT !.failed = @ \/ out.kind \in {"error", "timeout"},
               !.timedOut = @ \/ out.kind = "timeout",
               !.merFrom = SourceOf(out)]]
\* position s is resolved as the n-th representative of a grouped run: its
\* attempt becomes the last attempt
NoteResolved(h, s, n) ==
  LET streak == IF h.attempt[s].failed
                  THEN Min2(h.streak + 1, MAX_CONSECUTIVE_FAILURES) ELSE 0
  IN [h EXCEPT !.streak = streak,
               !.last = h.attempt[s],
               !.attempt[s] = FreshAttempt,
               !.tripAt = IF @ = 0 /\ streak >= MAX_CONSECUTIVE_FAILURES THEN n ELSE @]

Request(s, kind) == IF configured THEN {<< s, kind >>} ELSE {}

(***************************************************************************)
(* categorizeTransactions: the choice of the strategy.                     *)
(***************************************************************************)
jobVars == << configured, api, dpc, hookVars, file, ledger, status, errorMessage, analysisResult, rows,
              cpc, timer, spc, thrown, svcResult, caught, updIdx >>
groupedVars == << uniqueTx, aiMap, batchPos, gcall, consecutiveFailures >>

OrchStart ==
  /\ opc = "start"
  /\ IF Len(ledger) > SMART_THRESHOLD
       THEN /\ strategy' = "grouped"
            /\ uniqueTx' = UniqueTransactionsOf[ledger]
            /\ aiMap' = [k \in Keys(ledger) |-> None]
            /\ opc' = "g_head"
       ELSE /\ strategy' = "direct"
            /\ opc' = "d_batch"
            /\ UNCHANGED << uniqueTx, aiMap >>
  /\ batchStart' = 0
  /\ consecutiveFailures' = 0
  /\ categorized' = << >>
  /\ UNCHANGED << jobVars, tasks, batchPos, gcall, deadlinePassed, inflight, hist >>

(***************************************************************************)
(* The direct strategy: batches of BATCH_SIZE tasks under                  *)
(* Promise.allSettled.                                                     *)
(***************************************************************************)
BatchLen == Min2(BATCH_SIZE, Len(ledger) - batchStart)
Slot(k) == batchStart + k

\* the loop head: batch.map(async ...) runs every task up to its first await
DirectBatch ==
  /\ opc = "d_batch"
  /\ IF batchStart < Len(ledger)
       THEN /\ tasks' = [k \in 1..BatchLen |->
                           IF Slot(k) - 1 < MAX_AI_CALLS(ledger)
                             THEN [pc |-> "category", retries |-> 0,
                                   category |-> NoCatReply, result |-> None]
                             ELSE [pc |-> "done", retries |-> 0,
                                   category |-> NoCatReply,
                                   result |-> Some(FallbackResult(ledger[Slot(k)]))]]
            /\ inflight' = inflight \cup
                 UNION {Request(Slot(k), "category") :
                          k \in {j \in 1..BatchLen : Slot(j) - 1 < MAX_AI_CALLS(ledger)}}
            /\ opc' = "d_wait"
       ELSE /\ opc' = "done"
            /\ UNCHANGED << tasks, inflight >>
  /\ UNCHANGED << jobVars, strategy, batchStart, categorized, groupedVars,
                  deadlinePassed, hist >>

\* catch (error) { retries++; ... } of one task
TaskCatch(k) ==
  IF tasks[k].retries + 1 > MAX_RETRIES
    THEN /\ tasks' = [tasks EXCEPT ![k].pc = "done",
                                   ![k].retries = @ + 1,
                                   ![k].result = Some(FallbackResult(ledger[Slot(k)]))]
         /\ inflight' = inflight \ {<< Slot(k), tasks[k].pc >>}
    ELSE /\ tasks' = [tasks EXCEPT ![k].pc = "category", ![k].retries = @ + 1]
         /\ inflight' = (inflight \ {<< Slot(k), tasks[k].pc >>})
                          \cup Request(Slot(k), "category")

TaskCategoryReturns(k) ==
  /\ opc = "d_wait"
  /\ k \in DOMAIN tasks
  /\ tasks[k].pc = "category"
  /\ \E out \in Answers(CatOutcomes(configured)) :
       LET r == categorizeTransaction(ledger[Slot(k)].description, out)
       IN /\ IF r.threw
               THEN TaskCatch(k)
               ELSE /\ tasks' = [tasks EXCEPT ![k].pc = "pause",
                                              ![k].category = r.value]
                    /\ inflight' = inflight \ {<< Slot(k), "category" >>}
          /\ hist' = NoteCategory(hist, Slot(k), out)
  /\ UNCHANGED << jobVars, strategy, opc, batchStart, categorized, groupedVars,
                  deadlinePassed >>

\* MayCallMerchant without the await of the category request
MayCallMerchant_noAwait(pc) == pc \in {"category", "pause"}

\* the merchant request is made after the category request has returned
\* and the 300 ms pause has passed
MayCallMerchant(pc) == pc = "pause"

TaskCallMerchant(k) ==
  /\ opc = "d_wait"
  /\ k \in DOMAIN tasks
  /\ MayCallMerchant(tasks[k].pc)
  /\ tasks' = [tasks EXCEPT ![k].pc = "merchant"]
  /\ inflight' = inflight \cup Request(Slot(k), "merchant")
  /\ UNCHANGED << jobVars, strategy, opc, batchStart, categorized, groupedVars,
                  deadlinePassed, hist >>

TaskMerchantReturns(k) ==
  /\ opc = "d_wait"
  /\ k \in DOMAIN tasks
  /\ tasks[k].pc = "merchant"
  /\ \E out \in Answers(MerOutcomes(configured)) :
       LET tx == ledger[Slot(k)]
           r == extractMerchant(tx.description, out)
       IN /\ IF r.threw
               THEN TaskCatch(k)
               ELSE /\ tasks' = [tasks EXCEPT
                                   ![k].pc = "done",
                                   ![k].result =
                                      Some(SuccessResult(tx, tasks[k].category, r.value))]
                    /\ inflight' = inflight \ {<< Slot(k), "merchant" >>}
          /\ hist' = NoteMerchant(hist, Slot(k), out)
  /\ UNCHANGED << jobVars, strategy, opc, batchStart, categorized, groupedVars,
                  deadlinePassed >>

\* batchResults.forEach(...): the results of the batch, in order
DirectSettle ==
  /\ opc = "d_wait"
  /\ \A k \in DOMAIN tasks : tasks[k].pc = "done"
  /\ categorized' = categorized \o
       [k \in 1..Len(tasks) |->
          IF tasks[k].result # None
            THEN tasks[k].result[1]
            ELSE FallbackResult(ledger[Slot(k)])]
  /\ batchStart' = batchStart + BATCH_SIZE
  /\ tasks' = << >>
  /\ opc' = "d_batch"
  /\ UNCHANGED << jobVars, strategy, groupedVars, deadlinePassed, inflight, hist >>

(***************************************************************************)
(* The grouped strategy (smartCategorizeTransactions): one representative  *)
(* per normalized description, in batches of SMART_BATCH_SIZE, one after   *)
(* the other.                                                              *)
(***************************************************************************)
BatchEnd == Min2(batchStart + SMART_BATCH_SIZE, Len(uniqueTx))
Representative == uniqueTx[batchStart + batchPos + 1]

\* FanOut in the reverse order of the ledger
FanOut_reversed(l, map) ==
  [i \in 1..Len(l) |-> FanOutResult(l[Len(l) + 1 - i], map[KeyOf(l[Len(l) + 1 - i])])]

\* transactions.forEach(...) after the loop: every transaction takes the entry
\* of its key, or the fallback of its own description
FanOut(l, map) == [i \in 1..Len(l) |-> FanOutResult(l[i], map[KeyOf(l[i])])]

\* the head of the for loop: the loop condition, the deadline and the breaker
GroupedBatchHead ==
  /\ opc = "g_head"
  /\ IF \/ batchStart >= Len(uniqueTx)
        \/ deadlinePassed
        \/ consecutiveFailures >= MAX_CONSECUTIVE_FAILURES
       THEN /\ categorized' = FanOut(ledger, aiMap)
            /\ opc' = "done"
            /\ hist' = [hist EXCEPT !.exit =
                          IF batchStart >= Len(uniqueTx) THEN "exhausted"
                          ELSE IF deadlinePassed THEN "deadline" ELSE "breaker"]
            /\ UNCHANGED batchPos
       ELSE /\ batchPos' = 0
            /\ opc' = "g_item"
            /\ UNCHANGED << categorized, hist >>
  /\ UNCHANGED << jobVars, strategy, batchStart, tasks, uniqueTx, aiMap, gcall,
                  consecutiveFailures, deadlinePassed, inflight >>

\* the next transaction of the batch, or the end of the batch
GroupedNextItem ==
  /\ opc = "g_item"
  /\ IF batchStart + batchPos >= BatchEnd
       THEN /\ batchStart' = batchStart + SMART_BATCH_SIZE
            /\ opc' = "g_head"
            /\ UNCHANGED << batchPos, inflight >>
       ELSE IF aiMap[KeyOf(ledger[Representative])] # None
         THEN /\ batchPos' = batchPos + 1
              /\ UNCHANGED << batchStart, opc, inflight >>
         ELSE /\ opc' = "g_category"
              /\ inflight' = inflight \cup Request(Representative, "category")
              /\ UNCHANGED << batchStart, batchPos >>
  /\ UNCHANGED << jobVars, strategy, tasks, categorized, uniqueTx, aiMap, gcall,
                  consecutiveFailures, deadlinePassed, hist >>

\* catch (error) { consecutiveFailures++; ... } of the grouped loop
GroupedCatch(h) ==
  /\ consecutiveFailures' = consecutiveFailures + 1
  /\ aiMap' = [aiMap EXCEPT ![KeyOf(ledger[Representative])] =
                 Some(EntryOf(FallbackResult(ledger[Representative])))]
  /\ batchPos' = batchPos + 1
  /\ opc' = "g_item"
  /\ hist' = NoteResolved(h, Representative, batchStart + batchPos + 1)
  /\ UNCHANGED gcall

GroupedCategoryReturns ==
  /\ opc = "g_category"
  /\ \E out \in Answers(CatOutcomes(configured)) :
       LET r == categorizeTransaction(ledger[Representative].description, out)
           h == NoteCategory(hist, Representative, out)
       IN IF r.threw
            THEN GroupedCatch(h)
            ELSE /\ gcall' = r.value
                 /\ opc' = "g_pause"
                 /\ hist' = h
                 /\ UNCHANGED << aiMap, batchPos, consecutiveFailures >>
  /\ inflight' = inflight \ {<< Representative, "category" >>}
  /\ UNCHANGED << jobVars, strategy, batchStart, tasks, categorized, uniqueTx,
                  deadlinePassed >>

GroupedCallMerchant ==
  /\ opc = "g_pause"
  /\ opc' = "g_merchant"
  /\ inflight' = inflight \cup Request(Representative, "merchant")
  /\ UNCHANGED << jobVars, strategy, batchStart, tasks, categorized, groupedVars,
                  deadlinePassed, hist >>

GroupedMerchantReturns ==
  /\ opc = "g_merchant"
  /\ \E out \in Answers(MerOutcomes(configured)) :
       LET tx == ledger[Representative]
           r == extractMerchant(tx.description, out)
           h == NoteMerchant(hist, Representative, out)
       IN IF r.threw
            THEN GroupedCatch(h)
            ELSE /\ aiMap' = [aiMap EXCEPT ![KeyOf(tx)] =
                                Some(EntryOf(SuccessResult(tx, gcall, r.value)))]
                 /\ consecutiveFailures' = 0
                 /\ batchPos' = batchPos + 1
                 /\ opc' = "g_item"
                 /\ hist' = NoteResolved(h, Representative, batchStart + batchPos + 1)
                 /\ UNCHANGED gcall
  /\ inflight' = inflight \ {<< Representative, "merchant" >>}
  /\ UNCHANGED << jobVars, strategy, batchStart, tasks, categorized, uniqueTx,
                  deadlinePassed >>

\* time passes: the phase budget of the grouped run is used up.  The budget
\* is longer than the outer timeout of the job, whose timer is armed before
\* the run starts, so that timer has fired by then.
DeadlineElapses ==
  /\ strategy = "grouped"
  /\ opc # "done"
  /\ ~deadlinePassed
  /\ TIMEOUT_MS < AI_PROCESSING_TIMEOUT => timer # "armed"
  /\ deadlinePassed' = TRUE
  /\ UNCHANGED << jobVars, strategy, opc, batchStart, tasks, categorized,
                  groupedVars, inflight, hist >>

Classify ==
  \/ OrchStart
  \/ DirectBatch
  \/ \E k \in 1..BATCH_SIZE : TaskCategoryReturns(k)
  \/ \E k \in 1..BATCH_SIZE : TaskCallMerchant(k)
  \/ \E k \in 1..BATCH_SIZE : TaskMerchantReturns(k)
  \/ DirectSettle
  \/ GroupedBatchHead
  \/ GroupedNextItem
  \/ GroupedCategoryReturns
  \/ GroupedCallMerchant
  \/ GroupedMerchantReturns
  \/ DeadlineElapses

(***************************************************************************)
(* The statement job: BankStatementController.uploadStatement and          *)
(* processStatementAsync, BankStatementService.processStatement and the    *)
(* store behind BankStatementRepository.  A store operation succeeds or    *)
(* throws without effect.                                                  *)
(***************************************************************************)
TimeoutMessage == "Processing timeout after 2 minutes"
NoTransactionsMessage == "No transactions found in the statement"
ParseErrorMessage == "Parse error"
StoreErrorMessage == "Database error"
NullStatementMessage == "Cannot read properties of null (reading 'userId')"

orchVars == << strategy, batchStart, tasks, categorized, groupedVars,
               deadlinePassed, inflight, hist >>

\* createStatement({... status: 'processing'}) and setTimeout(..., 100)
UploadStatement ==
  /\ cpc = "idle"
  /\ status = "none"
  /\ status' = "processing"
  /\ cpc' = "scheduled"
  /\ UNCHANGED << configured, api, dpc, hookVars, file, ledger, errorMessage, analysisResult, rows, timer,
                  spc, thrown, svcResult, caught, updIdx, opc, orchVars >>

\* processStatementAsync up to the race: the statement is looked up, and if
\* it exists the timer is armed and processStatement is called
AsyncStart ==
  /\ cpc = "scheduled"
  /\ \E ok \in BOOLEAN :
       IF ~ok
         THEN /\ caught' = Some(StoreErrorMessage)
              /\ cpc' = "caught"
              /\ UNCHANGED << timer, spc >>
         ELSE IF status = "none"
           THEN /\ cpc' = "done"
                /\ UNCHANGED << timer, spc, caught >>
           ELSE /\ timer' = "armed"
                /\ cpc' = "racing"
                /\ spc' = "parse"
                /\ UNCHANGED caught
  /\ UNCHANGED << configured, api, dpc, hookVars, file, ledger, status, errorMessage, analysisResult, rows,
                  thrown, svcResult, updIdx, opc, orchVars >>

\* readFileSync, parseFile and the check for an empty result
SvcParse ==
  /\ spc = "parse"
  /\ \E ok \in BOOLEAN :
       IF ~ok
         THEN /\ thrown' = Some(ParseErrorMessage)
              /\ spc' = "threw"
         ELSE IF Len(ledger) = 0
           THEN /\ thrown' = Some(NoTransactionsMessage)
                /\ spc' = "threw"
           ELSE /\ spc' = "save"
                /\ UNCHANGED thrown
  /\ UNCHANGED << configured, api, dpc, hookVars, file, ledger, status, errorMessage, analysisResult, rows,
                  cpc, timer, svcResult, caught, updIdx, opc, orchVars >>

\* the row createMany stores for a transaction
NewRow(tx) == [tx |-> tx, category |-> None, merchant |-> None, confidence |-> None]

\* MayInsertRows without the foreign key of the rows
MayInsertRows_noForeignKey(st) == TRUE

\* the foreign key statement_transactions.statement_id: rows are inserted
\* only for a statement that exists
MayInsertRows(st) == st # "none"

\* saveExtractedTransactions, then the call of categorizeTransactions
SvcSave ==
  /\ spc = "save"
  /\ \E ok \in BOOLEAN :
       IF ok /\ MayInsertRows(status)
         THEN /\ rows' = [i \in 1..Len(ledger) |-> NewRow(ledger[i])]
              /\ spc' = "classify"
              /\ opc' = "start"
              /\ UNCHANGED thrown
         ELSE /\ thrown' = Some(StoreErrorMessage)
              /\ spc' = "threw"
              /\ UNCHANGED << rows, opc >>
  /\ UNCHANGED << configured, api, dpc, hookVars, file, ledger, status, errorMessage, analysisResult, cpc,
                  timer, svcResult, caught, updIdx, orchVars >>

\* categorizeTransactions has returned
SvcClassified ==
  /\ spc = "classify"
  /\ opc = "done"
  /\ spc' = "update"
  /\ updIdx' = 1
  /\ UNCHANGED << configured, api, dpc, hookVars, file, ledger, status, errorMessage, analysisResult, rows,
                  cpc, timer, thrown, svcResult, caught, opc, orchVars >>

\* stx.description === tx.description && stx.amount === tx.amount && same date
Matching(rs, tx) == {r \in 1..Len(rs) : rs[r].tx = tx}

\* one turn of "for (const tx of categorizedTransactions)": the rows are read,
\* the first matching row is updated; after the last turn the loop is left
SvcUpdate ==
  /\ spc = "update"
  /\ IF updIdx > Len(categorized)
       THEN /\ spc' = "analyse"
            /\ UNCHANGED << rows, thrown, updIdx >>
       ELSE LET c == categorized[updIdx]
            IN IF c.category = None \/ c.category = Some("")
                 THEN /\ updIdx' = updIdx + 1
                      /\ UNCHANGED << rows, thrown, spc >>
                 ELSE \E ok \in BOOLEAN :
                        IF ~ok
                          THEN /\ thrown' = Some(StoreErrorMessage)
                               /\ spc' = "threw"
                               /\ UNCHANGED << rows, updIdx >>
                          ELSE /\ IF Matching(rows, c.tx) = {}
                                    THEN UNCHANGED rows
                                    ELSE \E r \in Matching(rows, c.tx) :
                                           rows' = [rows EXCEPT
                                                      ![r].category = c.category,
                                                      ![r].merchant = c.merchant,
                                                      ![r].confidence = c.confidence]
                               /\ updIdx' = updIdx + 1
                               /\ UNCHANGED << thrown, spc >>
  /\ UNCHANGED << configured, api, dpc, hookVars, file, ledger, status, errorMessage, analysisResult, cpc,
                  timer, svcResult, caught, opc, orchVars >>

\* generateAnalysis: the figures of the ledger and the insights, which are a
\* placeholder when the text generator fails
Analysis(cs, insightsOk) ==
  [totalTransactions |-> Len(cs),
   insights |-> IF insightsOk THEN "generated" ELSE "unavailable"]

\* getStatement and generateAnalysis; processStatement returns.  Without a
\* statement, statement!.userId throws
SvcAnalyse ==
  /\ spc = "analyse"
  /\ \E ok \in BOOLEAN, insightsOk \in BOOLEAN :
       IF ok /\ status # "none"
         THEN /\ svcResult' = Some(Analysis(categorized, insightsOk /\ configured))
              /\ hist' = [hist EXCEPT !.aggregated = Some(categorized)]
              /\ spc' = "returned"
              /\ UNCHANGED thrown
         ELSE /\ thrown' = Some(IF ok THEN NullStatementMessage ELSE StoreErrorMessage)
              /\ spc' = "threw"
              /\ UNCHANGED << svcResult, hist >>
  /\ UNCHANGED << configured, api, dpc, hookVars, file, ledger, status, errorMessage, analysisResult, rows,
                  cpc, timer, caught, updIdx, opc, strategy, batchStart, tasks,
                  categorized, groupedVars, deadlinePassed, inflight >>

\* RaceOpen without the race: the handlers run whenever their promise settles
RaceOpen_noRace(c) == c \in {"racing", "caught", "done"}

\* Promise.race([processStatement(...), timeoutPromise]) is still open
RaceOpen(c) == c = "racing"

\* the timer fires before processStatement has settled: the race rejects
CtlTimeout ==
  /\ RaceOpen(cpc)
  /\ timer = "armed"
  /\ spc \notin {"returned", "threw"}
  /\ timer' = "fired"
  /\ caught' = Some(TimeoutMessage)
  /\ cpc' = "caught"
  /\ UNCHANGED << configured, api, dpc, hookVars, file, ledger, status, errorMessage, analysisResult, rows,
                  spc, thrown, svcResult, updIdx, opc, orchVars >>

\* processStatement returned first: updateStatement(... status: 'completed' ...),
\* which returns null for a statement that does not exist
CtlCommit ==
  /\ RaceOpen(cpc)
  /\ spc = "returned"
  /\ \E ok \in BOOLEAN :
       IF ~ok
         THEN /\ caught' = Some(StoreErrorMessage)
              /\ cpc' = "caught"
              /\ UNCHANGED << status, analysisResult >>
         ELSE IF status = "none"
           THEN /\ cpc' = "done"
                /\ UNCHANGED << status, analysisResult, caught >>
           ELSE /\ status' = "completed"
                /\ analysisResult' = svcResult
                /\ cpc' = "done"
                /\ UNCHANGED caught
  /\ UNCHANGED << configured, api, dpc, hookVars, file, ledger, errorMessage, rows, timer, spc, thrown,
                  svcResult, updIdx, opc, orchVars >>

\* processStatement threw first
CtlCatch ==
  /\ RaceOpen(cpc)
  /\ spc = "threw"
  /\ caught' = thrown
  /\ cpc' = "caught"
  /\ UNCHANGED << configured, api, dpc, hookVars, file, ledger, status, errorMessage, analysisResult, rows,
                  timer, spc, thrown, svcResult, updIdx, opc, orchVars >>

\* the catch block: getStatement and, if the statement exists,
\* updateStatement(... status: 'failed' ...); an error of the store is logged
\* and dropped
CtlMarkFailed ==
  /\ cpc = "caught"
  /\ \E ok \in BOOLEAN :
       IF ok /\ status # "none"
         THEN /\ status' = "failed"
              /\ errorMessage' = caught
         ELSE UNCHANGED << status, errorMessage >>
  /\ cpc' = "done"
  /\ UNCHANGED << configured, api, dpc, hookVars, file, ledger, analysisResult, rows, timer, spc, thrown,
                  svcResult, caught, updIdx, opc, orchVars >>

Job ==
  \/ UploadStatement
  \/ AsyncStart
  \/ SvcParse
  \/ SvcSave
  \/ SvcClassified
  \/ SvcUpdate
  \/ SvcAnalyse
  \/ CtlTimeout
  \/ CtlCommit
  \/ CtlCatch
  \/ CtlMarkFailed

(***************************************************************************)
(* BankStatementController.deleteStatement, running beside the job of the  *)
(* statement.                                                              *)
(***************************************************************************)
deleteElse == << configured, api, hookVars, file, ledger, cpc, timer, spc, thrown,
                 svcResult, caught, updIdx, opc, orchVars >>

\* getStatement: 404 without a statement; then fs.unlink, whose error is dropped
DeleteLookup ==
  /\ dpc = "idle"
  /\ cpc # "idle"
  /\ \E ok \in BOOLEAN :
       dpc' = IF ~ok THEN "failed" ELSE IF status = "none" THEN "notfound" ELSE "found"
  /\ UNCHANGED << deleteElse, status, errorMessage, analysisResult, rows >>

\* BankStatementRepository.deleteStatement: statementTransaction.deleteMany
DeleteRows ==
  /\ dpc = "found"
  /\ \E ok \in BOOLEAN :
       IF ok
         THEN /\ rows' = << >>
              /\ dpc' = "rows"
         ELSE /\ dpc' = "failed"
              /\ UNCHANGED rows
  /\ UNCHANGED << deleteElse, status, errorMessage, analysisResult >>

\* BankStatementRepository.deleteStatement: bankStatement.delete, which takes
\* the rows of the statement with it (ON DELETE CASCADE); then the answer 200
DeleteRecord ==
  /\ dpc = "rows"
  /\ \E ok \in BOOLEAN :
       IF ok
         THEN /\ status' = "none"
              /\ errorMessage' = None
              /\ analysisResult' = None
              /\ rows' = << >>
              /\ dpc' = "deleted"
         ELSE /\ dpc' = "failed"
              /\ UNCHANGED << status, errorMessage, analysisResult, rows >>
  /\ UNCHANGED deleteElse

DeleteStatement ==
  \/ DeleteLookup
  \/ DeleteRows
  \/ DeleteRecord

(***************************************************************************)
(* BankStatementService.uploadAndProcessStatement: the statement is        *)
(* created, parsed, analysed, saved and completed in one call.             *)
(***************************************************************************)
NoTransactionsInFileMessage == "No transactions found in the uploaded file"

uploadElse == << configured, api, dpc, hookVars, file, ledger, cpc, timer, caught, updIdx,
                 opc, strategy, batchStart, tasks, categorized, groupedVars,
                 deadlinePassed, inflight >>

\* createStatement({... status: 'processing'})
UapCreate ==
  /\ spc = "u_create"
  /\ status = "none"
  /\ \E ok \in BOOLEAN :
       IF ok
         THEN /\ status' = "processing"
              /\ spc' = "u_parse"
              /\ UNCHANGED thrown
         ELSE /\ thrown' = Some(StoreErrorMessage)
              /\ spc' = "u_catch"
              /\ UNCHANGED status
  /\ UNCHANGED << uploadElse, errorMessage, analysisResult, rows, svcResult, hist >>

\* readFileSync, parseFile and the check for an empty result
UapParse ==
  /\ spc = "u_parse"
  /\ \E ok \in BOOLEAN :
       IF ~ok
         THEN /\ thrown' = Some(ParseErrorMessage)
              /\ spc' = "u_catch"
         ELSE IF Len(ledger) = 0
           THEN /\ thrown' = Some(NoTransactionsInFileMessage)
                /\ spc' = "u_catch"
           ELSE /\ spc' = "u_analyse"
                /\ UNCHANGED thrown
  /\ UNCHANGED << uploadElse, status, errorMessage, analysisResult, rows, svcResult, hist >>

\* the extracted transactions, as generateAnalysis reads them: without
\* category, merchant and confidence
AsExtracted(l) == [i \in 1..Len(l) |-> NewRow(l[i])]

\* generateAnalysis(extractedTransactions, ...)
UapAnalyse ==
  /\ spc = "u_analyse"
  /\ \E insightsOk \in BOOLEAN :
       svcResult' = Some(Analysis(AsExtracted(ledger), insightsOk /\ configured))
  /\ hist' = [hist EXCEPT !.aggregated = Some(AsExtracted(ledger))]
  /\ spc' = "u_save"
  /\ UNCHANGED << uploadElse, status, errorMessage, analysisResult, rows, thrown >>

\* saveExtractedTransactions
UapSave ==
  /\ spc = "u_save"
  /\ \E ok \in BOOLEAN :
       IF ok
         THEN /\ rows' = AsExtracted(ledger)
              /\ spc' = "u_commit"
              /\ UNCHANGED thrown
         ELSE /\ thrown' = Some(StoreErrorMessage)
              /\ spc' = "u_catch"
              /\ UNCHANGED rows
  /\ UNCHANGED << uploadElse, status, errorMessage, analysisResult, svcResult, hist >>

\* updateStatement(... status: 'completed', analysisResult ...)
UapCommit ==
  /\ spc = "u_commit"
  /\ \E ok \in BOOLEAN :
       IF ok
         THEN /\ status' = "completed"
              /\ analysisResult' = svcResult
              /\ spc' = "u_returned"
              /\ UNCHANGED thrown
         ELSE /\ thrown' = Some(StoreErrorMessage)
              /\ spc' = "u_catch"
              /\ UNCHANGED << status, analysisResult >>
  /\ UNCHANGED << uploadElse, errorMessage, rows, svcResult, hist >>

\* the catch block: with a statement record, updateStatement(... status:
\* 'failed' ...); then the error is thrown again, unless the store has thrown
UapCatch ==
  /\ spc = "u_catch"
  /\ IF status = "none"
       THEN UNCHANGED << status, errorMessage, thrown >>
       ELSE \E ok \in BOOLEAN :
              IF ok
                THEN /\ status' = "failed"
                     /\ errorMessage' = thrown
                     /\ UNCHANGED thrown
                ELSE /\ thrown' = Some(StoreErrorMessage)
                     /\ UNCHANGED << status, errorMessage >>
  /\ spc' = "u_threw"
  /\ UNCHANGED << uploadElse, analysisResult, rows, svcResult, hist >>

UploadAndProcess ==
  \/ UapCreate
  \/ UapParse
  \/ UapAnalyse
  \/ UapSave
  \/ UapCommit
  \/ UapCatch

(***************************************************************************)
(* A classification run on its own: categorizeTransactions called on a     *)
(* non-empty ledger.                                                       *)
(***************************************************************************)
\* categorizeTransactions is entered: nothing of the run exists yet
RunStart ==
  /\ status = "none"
  /\ errorMessage = None
  /\ analysisResult = None
  /\ rows = << >>
  /\ cpc = "idle"
  /\ timer = "off"
  /\ spc = "idle"
  /\ thrown = None
  /\ svcResult = None
  /\ caught = None
  /\ updIdx = 0
  /\ strategy = "none"
  /\ opc = "start"
  /\ batchStart = 0
  /\ tasks = << >>
  /\ categorized = << >>
  /\ uniqueTx = << >>
  /\ aiMap = << >>
  /\ batchPos = 0
  /\ gcall = NoCatReply
  /\ consecutiveFailures = 0
  /\ deadlinePassed = FALSE
  /\ inflight = {}
  /\ hist = FreshHist(ledger)

InitRun ==
  /\ configured \in BOOLEAN
  /\ api = "any"
  /\ dpc = "idle"
  /\ NoWebhook
  /\ ledger \in Ledgers
  /\ file = NoFile
  /\ RunStart

SpecRun == InitRun /\ [][Classify]_vars

\* a run on a long ledger, while the external API is up or is down
InitRunLong ==
  /\ configured = TRUE
  /\ api \in {"up", "down"}
  /\ dpc = "idle"
  /\ NoWebhook
  /\ ledger \in LongLedgers
  /\ file = NoFile
  /\ RunStart

SpecRunLong == InitRunLong /\ [][Classify]_vars

\* uploadAndProcessStatement has been called: no statement record exists yet
InitUpload ==
  /\ configured \in BOOLEAN
  /\ api = "any"
  /\ dpc = "idle"
  /\ NoWebhook
  /\ ledger \in Ledgers \cup JobLedgers \cup FairLedgers \cup {<< >>}
  /\ file = NoFile
  /\ status = "none"
  /\ errorMessage = None
  /\ analysisResult = None
  /\ rows = << >>
  /\ cpc = "idle"
  /\ timer = "off"
  /\ spc = "u_create"
  /\ thrown = None
  /\ svcResult = None
  /\ caught = None
  /\ updIdx = 0
  /\ strategy = "none"
  /\ opc = "idle"
  /\ batchStart = 0
  /\ tasks = << >>
  /\ categorized = << >>
  /\ uniqueTx = << >>
  /\ aiMap = << >>
  /\ batchPos = 0
  /\ gcall = NoCatReply
  /\ consecutiveFailures = 0
  /\ deadlinePassed = FALSE
  /\ inflight = {}
  /\ hist = FreshHist(ledger)

SpecUpload == InitUpload /\ [][UploadAndProcess]_vars

(***************************************************************************)
(* A statement job from the upload on.                                     *)
(***************************************************************************)
Init ==
  /\ configured \in BOOLEAN
  /\ api = "any"
  /\ dpc = "idle"
  /\ NoWebhook
  /\ ledger \in JobLedgers
  /\ file = NoFile
  /\ status = "none"
  /\ errorMessage = None
  /\ analysisResult = None
  /\ rows = << >>
  /\ cpc = "idle"
  /\ timer = "off"
  /\ spc = "idle"
  /\ thrown = None
  /\ svcResult = None
  /\ caught = None
  /\ updIdx = 0
  /\ strategy = "none"
  /\ opc = "idle"
  /\ batchStart = 0
  /\ tasks = << >>
  /\ categorized = << >>
  /\ uniqueTx = << >>
  /\ aiMap = << >>
  /\ batchPos = 0
  /\ gcall = NoCatReply
  /\ consecutiveFailures = 0
  /\ deadlinePassed = FALSE
  /\ inflight = {}
  /\ hist = FreshHist(ledger)

Next == Job \/ Classify

Spec == Init /\ [][Next]_vars

\* the job of a statement with a request to delete the statement, while the
\* external API is down
InitDelete ==
  /\ configured = TRUE
  /\ api = "down"
  /\ dpc = "idle"
  /\ NoWebhook
  /\ ledger \in JobLedgers
  /\ file = NoFile
  /\ status = "none"
  /\ errorMessage = None
  /\ analysisResult = None
  /\ rows = << >>
  /\ cpc = "idle"
  /\ timer = "off"
  /\ spc = "idle"
  /\ thrown = None
  /\ svcResult = None
  /\ caught = None
  /\ updIdx = 0
  /\ strategy = "none"
  /\ opc = "idle"
  /\ batchStart = 0
  /\ tasks = << >>
  /\ categorized = << >>
  /\ uniqueTx = << >>
  /\ aiMap = << >>
  /\ batchPos = 0
  /\ gcall = NoCatReply
  /\ consecutiveFailures = 0
  /\ deadlinePassed = FALSE
  /\ inflight = {}
  /\ hist = FreshHist(ledger)

NextDelete == Next \/ DeleteStatement

SpecDelete == InitDelete /\ [][NextDelete]_vars

\* a run of categorizeTransactions in which every step that can be taken is
\* taken: the event loop runs every continuation that is ready, and every
\* request to the external API settles (reply, error or the 5 s timer)
InitRunFair ==
  /\ configured \in BOOLEAN
  /\ api = "any"
  /\ dpc = "idle"
  /\ NoWebhook
  /\ ledger \in FairLedgers
  /\ file = NoFile
  /\ RunStart
SpecRunFair == InitRunFair /\ [][Classify]_vars /\ WF_vars(Classify)

(***************************************************************************)
(* BankStatementService.generateAnalysis: the figures computed from the    *)
(* categorized transactions.  A quotient is kept as numerator and          *)
(* denominator; a date is a day number, and a month has 31 days.           *)
(***************************************************************************)
Frac(n, d) == [num |-> n, den |-> d]

RECURSIVE SumSeq(_)
SumSeq(s) == IF s = << >> THEN 0 ELSE s[1] + SumSeq(Tail(s))

AmountsOf(ts) == [i \in 1..Len(ts) |-> ts[i].tx.amount]
DatesOf(ts) == [i \in 1..Len(ts) |-> ts[i].tx.date]
\* IsDebit without the test of the type
IsDebit_any(t) == t.tx.type \in {"debit", "credit"}

IsDebit(t) == t.tx.type = "debit"

IsCredit(t) == t.tx.type = "credit"
HasMerchant(t) == t.merchant # None /\ t.merchant[1] # << >>
HasCategory(t) == t.category # None /\ t.category[1] # ""

\* the keys of a Map in insertion order: each key where it first appears
DistinctInOrder(ks) ==
  LET first == {i \in 1..Len(ks) : \A j \in 1..(i-1) : ks[j] # ks[i]}
      order == Sorted(first)
  IN [m \in 1..Len(order) |-> ks[order[m]]]

\* Array.prototype.sort((a, b) => Key(b) - Key(a)): descending and stable
SortDescending(es, Key(_)) ==
  LET n == Len(es)
      rank(i) == 1 + Cardinality({j \in 1..n :
                        \/ Key(es[j]) > Key(es[i])
                        \/ Key(es[j]) = Key(es[i]) /\ j < i})
  IN [p \in 1..n |-> es[CHOOSE i \in 1..n : rank(i) = p]]

\* Array.prototype.sort((a, b) => Key(a) - Key(b)) on distinct keys
SortAscending(es, Key(_)) ==
  LET n == Len(es)
      rank(i) == 1 + Cardinality({j \in 1..n : Key(es[j]) < Key(es[i])})
  IN [p \in 1..n |-> es[CHOOSE i \in 1..n : rank(i) = p]]

AmountOf(e) == e.amount
MonthOf(e) == e.month
MonthKey(date) == date \div 31

detectStatementPeriod(ts) ==
  IF Len(ts) = 0 THEN None
  ELSE Some([startDate |-> MinOf(Ran(DatesOf(ts))),
             endDate |-> MaxOf(Ran(DatesOf(ts)))])

\* averageBalance without the test of the length: 0 / 0
averageBalance_noGuard(balances) == Frac(SumSeq(balances), Len(balances))

\* balances.length > 0 ? sum / balances.length : 0
averageBalance(balances) ==
  IF Len(balances) > 0 THEN Frac(SumSeq(balances), Len(balances)) ELSE Frac(0, 1)

calculateSummary(ts) ==
  LET totalIncome == SumSeq(AmountsOf(SelectSeq(ts, IsCredit)))
      totalExpenses == SumSeq(AmountsOf(SelectSeq(ts, IsDebit)))
      withBalance == SelectSeq(ts, LAMBDA t : t.tx.balance # None)
      balances == [i \in 1..Len(withBalance) |-> withBalance[i].tx.balance[1]]
      statementPeriod == detectStatementPeriod(ts)
  IN [totalTransactions |-> Len(ts),
      totalIncome |-> totalIncome,
      totalExpenses |-> totalExpenses,
      netCashFlow |-> totalIncome - totalExpenses,
      averageBalance |-> averageBalance(balances),
      statementPeriod |-> IF statementPeriod # None THEN statementPeriod[1]
                          ELSE [startDate |-> "now", endDate |-> "now"]]

CategoryOf(t) == OrStr(t.category, "Other")

calculateCategoriesBreakdown(ts) ==
  LET debits == SelectSeq(ts, IsDebit)
      names == DistinctInOrder([i \in 1..Len(debits) |-> CategoryOf(debits[i])])
      of(name) == SelectSeq(debits, LAMBDA t : CategoryOf(t) = name)
      totalExpenses == SumSeq(AmountsOf(debits))
      entries == [m \in 1..Len(names) |->
                    LET amount == SumSeq(AmountsOf(of(names[m])))
                    IN [name |-> names[m],
                        amount |-> amount,
                        percentage |-> IF totalExpenses > 0
                                         THEN Frac(amount * 100, totalExpenses)
                                         ELSE Frac(0, 1),
                        transactionCount |-> Len(of(names[m]))]]
  IN FirstN(SortDescending(entries, AmountOf), 10)

findTopMerchants(ts) ==
  LET debits == SelectSeq(ts, LAMBDA t : IsDebit(t) /\ HasMerchant(t))
      names == DistinctInOrder([i \in 1..Len(debits) |-> debits[i].merchant[1]])
      of(name) == SelectSeq(debits, LAMBDA t : t.merchant[1] = name)
      entries == [m \in 1..Len(names) |->
                    [name |-> names[m],
                     amount |-> SumSeq(AmountsOf(of(names[m]))),
                     transactionCount |-> Len(of(names[m]))]]
  IN FirstN(SortDescending(entries, AmountOf), 10)

calculateMonthlyBreakdown(ts) ==
  LET months == DistinctInOrder([i \in 1..Len(ts) |-> MonthKey(ts[i].tx.date)])
      of(month) == SelectSeq(ts, LAMBDA t : MonthKey(t.tx.date) = month)
      entries == [m \in 1..Len(months) |->
                    LET income == SumSeq(AmountsOf(SelectSeq(of(months[m]), IsCredit)))
                        expenses == SumSeq(AmountsOf(SelectSeq(of(months[m]),
                                                      LAMBDA t : ~IsCredit(t))))
                    IN [month |-> months[m], income |-> income,
                        expenses |-> expenses, netFlow |-> income - expenses]]
  IN SortAscending(entries, MonthOf)

\* the mean interval between consecutive dates is (last - first) / (n - 1)
calculateFrequency(ts) ==
  IF Len(ts) < 2 THEN "unknown"
  ELSE LET span == MaxOf(Ran(DatesOf(ts))) - MinOf(Ran(DatesOf(ts)))
           n == Len(ts) - 1
       IN IF span <= 7 * n THEN "weekly"
          ELSE IF span <= 31 * n THEN "monthly"
          ELSE IF span <= 93 * n THEN "quarterly"
          ELSE "irregular"

findRecurringPayments(ts) ==
  LET debits == SelectSeq(ts, LAMBDA t : IsDebit(t) /\ HasMerchant(t))
      names == DistinctInOrder([i \in 1..Len(debits) |-> debits[i].merchant[1]])
      of(name) == SelectSeq(debits, LAMBDA t : t.merchant[1] = name)
      often == SelectSeq(names, LAMBDA name : Len(of(name)) >= 3)
      recurring == [m \in 1..Len(often) |->
                      [merchant |-> often[m],
                       amount |-> Frac(SumSeq(AmountsOf(of(often[m]))), Len(of(often[m]))),
                       frequency |-> calculateFrequency(of(often[m])),
                       lastDate |-> MaxOf(Ran(DatesOf(of(often[m]))))]]
  IN FirstN(recurring, 5)

\* t.amount > 3 * avgAmount, with avgAmount = sum / n; Math.round of the ratio
findUnusualTransactions(ts) ==
  IF Len(ts) = 0 THEN << >>
  ELSE LET sum == SumSeq(AmountsOf(ts))
           n == Len(ts)
           unusual == SelectSeq(ts, LAMBDA t : t.tx.amount * n > 3 * sum)
       IN FirstN([i \in 1..Len(unusual) |->
                    [date |-> unusual[i].tx.date,
                     description |-> unusual[i].tx.description,
                     amount |-> unusual[i].tx.amount,
                     times |-> (2 * unusual[i].tx.amount * n + sum) \div (2 * sum)]], 5)

calculateSpendingTrends(ts) ==
  LET debits == SelectSeq(ts, LAMBDA t : IsDebit(t) /\ HasCategory(t))
      names == DistinctInOrder([i \in 1..Len(debits) |-> debits[i].category[1]])
  IN [m \in 1..Len(names) |->
        [category |-> names[m], trend |-> "stable", percentage |-> 0]]

detectPatterns(ts) ==
  [recurringPayments |-> findRecurringPayments(ts),
   unusualTransactions |-> findUnusualTransactions(ts),
   spendingTrends |-> calculateSpendingTrends(ts)]

\* the insights come from the text generator; a placeholder when it fails
generateAnalysis(ts, insightsOk) ==
  [summary |-> calculateSummary(ts),
   categories |-> calculateCategoriesBreakdown(ts),
   topMerchants |-> findTopMerchants(ts),
   monthlyBreakdown |-> calculateMonthlyBreakdown(ts),
   insights |-> IF insightsOk THEN "generated" ELSE "unavailable",
   patterns |-> detectPatterns(ts)]

(***************************************************************************)
(* The categorized ledgers handed to generateAnalysis.                     *)
(***************************************************************************)
MaxAgg == 4          \* every ledger of up to MaxAgg transactions of AggKinds
MaxMerchants == 6    \* merchants of the ledgers built from transaction counts
MaxCategories == 11  \* categories of the ledgers built from category lists

MerchantNames == [k \in 1..Len(LowerAlpha) |-> << "m", LowerAlpha[k] >>]
CategoryNames == << "Food & Dining", "Transportation", "Shopping",
                    "Bills & Utilities", "Banking & Finance", "Healthcare",
                    "Entertainment", "Education", "Travel", "Investment",
                    "Insurance", "Groceries", "Charity", "Taxes", "Pets" >>

AggTx(type, amount, date, category, merchant) ==
  [tx |-> [description |-> D_KFC, amount |-> amount, date |-> date,
           type |-> type,
           balance |-> IF type = "credit" THEN Some(5000) ELSE None],
   category |-> category,
   merchant |-> merchant,
   confidence |-> Some(30)]

AggKinds == {[type |-> ty, amount |-> a] : ty \in {"debit", "credit"},
                                           a \in {100, 1000}}
\* every ledger of n transactions of AggKinds, ten days apart, of one merchant;
\* the small amounts have a category
ShortLedgers(n) ==
  {[i \in 1..n |->
      AggTx(ks[i].type, ks[i].amount, 10 * i,
            IF ks[i].amount = 100 THEN Some(CategoryNames[3]) ELSE None,
            Some(MerchantNames[1]))] : ks \in [1..n -> AggKinds]}

RECURSIVE Repeat(_, _)
Repeat(x, n) == IF n = 0 THEN << >> ELSE << x >> \o Repeat(x, n - 1)
RECURSIVE Blocks(_, _)
Blocks(counts, k) ==
  IF k = 0 THEN << >>
  ELSE Blocks(counts, k - 1) \o Repeat(k, counts[k])
\* counts[k] debits of merchant k, merchant after merchant, a week apart
MerchantLedgers ==
  {LET ms == Blocks(counts, MaxMerchants)
   IN [i \in 1..Len(ms) |->
         AggTx("debit", 100 * ms[i], 7 * i, Some(CategoryNames[1]),
               Some(MerchantNames[ms[i]]))] : counts \in [1..MaxMerchants -> 2..4]}

\* one debit for each of the first n categories, then a second debit for
\* every other of them, then a credit of a category of its own
CategoryLedgers ==
  {LET cs == [i \in 1..n |-> i] \o SelectSeq([i \in 1..n |-> i], LAMBDA c : c % 2 = 0)
   IN [i \in 1..Len(cs) |->
         AggTx("debit", 100 * (1 + ((cs[i] * step) % 7)), 3 * i,
               Some(CategoryNames[cs[i]]), None)]
      \o << AggTx("credit", 9000, 1, Some(CategoryNames[Len(CategoryNames)]), None) >>
   : n \in 0..Min2(MaxCategories, Len(CategoryNames) - 1), step \in 1..3}

AggLedgers ==
  UNION {ShortLedgers(n) : n \in 0..MaxAgg} \cup MerchantLedgers \cup CategoryLedgers

\* generateAnalysis(categorizedTransactions, ...) in processStatement
GenerateAnalysis ==
  /\ spc = "analyse"
  /\ \E insightsOk \in BOOLEAN :
       svcResult' = Some(generateAnalysis(categorized, insightsOk))
  /\ spc' = "returned"
  /\ UNCHANGED << configured, api, dpc, hookVars, file, ledger, status, errorMessage, analysisResult, rows,
                  cpc, timer, thrown, caught, updIdx, strategy, opc, batchStart,
                  tasks, categorized, uniqueTx, aiMap, batchPos, gcall,
                  consecutiveFailures, deadlinePassed, inflight, hist >>

\* processStatement has classified the ledger and is about to analyse it
InitAgg ==
  /\ configured = TRUE
  /\ api = "any"
  /\ dpc = "idle"
  /\ NoWebhook
  /\ categorized \in AggLedgers
  /\ ledger = [i \in 1..Len(categorized) |-> categorized[i].tx]
  /\ file = NoFile
  /\ status = "processing"
  /\ errorMessage = None
  /\ analysisResult = None
  /\ rows = << >>
  /\ cpc = "racing"
  /\ timer = "armed"
  /\ spc = "analyse"
  /\ thrown = None
  /\ svcResult = None
  /\ caught = None
  /\ updIdx = Len(categorized)
  /\ strategy = "direct"
  /\ opc = "done"
  /\ batchStart = 0
  /\ tasks = << >>
  /\ uniqueTx = << >>
  /\ aiMap = << >>
  /\ batchPos = 0
  /\ gcall = NoCatReply
  /\ consecutiveFailures = 0
  /\ deadlinePassed = FALSE
  /\ inflight = {}
  /\ hist = FreshHist(ledger)

SpecAgg == InitAgg /\ [][GenerateAnalysis]_vars

(***************************************************************************)
(* The parsers of an uploaded file: PDFParser, CSVParser and ExcelParser.  *)
(* A text is a sequence of characters, an amount a number of hundredths,   *)
(* a date a day number with 31 days to a month.                            *)
(***************************************************************************)
NL == "\n"
Digits == <<"0", "1", "2", "3", "4", "5", "6", "7", "8", "9">>
DigitVal(c) == (CHOOSE k \in 1..Len(Digits) : Digits[k] = c) - 1
IsDigits(s) == s # << >> /\ \A k \in 1..Len(s) : s[k] \in DigitChars
NumberOf(s) ==
  LET F[k \in 0..Len(s)] == IF k = 0 THEN 0 ELSE F[k-1] * 10 + DigitVal(s[k])
  IN F[Len(s)]
Abs(n) == IF n < 0 THEN 0 - n ELSE n

\* String.prototype.split(sep) for a separator of one character: the pieces
\* between one occurrence of the separator and the next
SplitOn(s, sep) ==
  LET cuts == {k \in 1..Len(s) : s[k] = sep}
      n == Cardinality(cuts)
      Cut(i) == IF i = 0 THEN 0
                ELSE IF i = n + 1 THEN Len(s) + 1
                ELSE CHOOSE c \in cuts : Cardinality({d \in cuts : d < c}) = i - 1
  IN [i \in 1..(n + 1) |-> SubSeq(s, Cut(i - 1) + 1, Cut(i) - 1)]

\* Array.prototype.join('\n')
JoinLines(ls) ==
  LET F[k \in 0..Len(ls)] ==
        IF k = 0 THEN << >>
        ELSE IF k = 1 THEN ls[1]
        ELSE F[k-1] \o << NL >> \o ls[k]
  IN F[Len(ls)]

\* text.split('\n').map(line => line.trim()).filter(line => line.length > 0)
NonEmptyLines(text) ==
  LET ls == SplitOn(text, NL)
      trimmed == [k \in 1..Len(ls) |-> trim(ls[k])]
  IN PickIdx(trimmed, {k \in 1..Len(ls) : trimmed[k] # << >>})

\* the values of the optional values that are there, in their order: what a
\* loop over them pushes
Present(opts) ==
  LET F[k \in 0..Len(opts)] ==
        IF k = 0 THEN << >>
        ELSE IF opts[k] = None THEN F[k-1] ELSE Append(F[k-1], opts[k][1])
  IN F[Len(opts)]

\* the first of the optional values that is there: what a loop over them returns
FirstPresent(opts) ==
  IF \A k \in 1..Len(opts) : opts[k] = None THEN None
  ELSE opts[MinOf({k \in 1..Len(opts) : opts[k] # None})]

(***************************************************************************)
(* Dates.  The date strings of the model are written with two digits for   *)
(* the day and the month and four for the year; the formats with a         *)
(* two-digit year or a month name never match such a string.               *)
(***************************************************************************)
IsLeap(y) == (y % 4 = 0 /\ y % 100 # 0) \/ y % 400 = 0
DaysInMonth(y, m) ==
  IF m = 2 THEN (IF IsLeap(y) THEN 29 ELSE 28)
  ELSE IF m \in {4, 6, 9, 11} THEN 30 ELSE 31
DateOf(ymd) == (ymd.y * 12 + (ymd.m - 1)) * 31 + (ymd.d - 1)
\* isValid of date-fns
ValidDate(y, m, d) == m \in 1..12 /\ d \in 1..DaysInMonth(y, m)

\* parse(dateStr, format, new Date()) of date-fns, for the numeric formats
parseFormat(s, format) ==
  LET p == SplitOn(s, format.sep)
  IN IF Len(p) # 3 \/ \E k \in 1..3 : ~IsDigits(p[k]) THEN None
     ELSE LET yi == IF format.order = "ymd" THEN 1 ELSE 3
              mi == IF format.order = "mdy" THEN 1 ELSE 2
              di == IF format.order = "dmy" THEN 1
                    ELSE IF format.order = "mdy" THEN 2 ELSE 3
              y == NumberOf(p[yi])
              m == NumberOf(p[mi])
              d == NumberOf(p[di])
          IN IF Len(p[yi]) = 4 /\ Len(p[mi]) = 2 /\ Len(p[di]) = 2
                  /\ ValidDate(y, m, d)
               THEN Some([y |-> y, m |-> m, d |-> d])
               ELSE None

\* the first format of the list under which the string is a valid date
FirstValid(s, formats) ==
  LET ok == {k \in 1..Len(formats) : parseFormat(s, formats[k]) # None}
  IN IF ok = {} THEN None ELSE parseFormat(s, formats[MinOf(ok)])

\* new Date(string) of the runtime on a string mm/dd/yyyy: a day of up to 31
\* beyond the end of the month rolls over into the next month
nativeDate(s) ==
  LET p == SplitOn(s, "/")
  IN IF Len(p) # 3 \/ \E k \in 1..3 : ~IsDigits(p[k]) THEN None
     ELSE LET y == NumberOf(p[3])
              m == NumberOf(p[1])
              d == NumberOf(p[2])
          IN IF ~(Len(p[3]) = 4 /\ Len(p[1]) = 2 /\ Len(p[2]) = 2
                    /\ m \in 1..12 /\ d \in 1..31)
               THEN None
             ELSE IF d <= DaysInMonth(y, m)
               THEN Some([y |-> y, m |-> m, d |-> d])
             ELSE IF m = 12
               THEN Some([y |-> y + 1, m |-> 1, d |-> d - DaysInMonth(y, m)])
             ELSE Some([y |-> y, m |-> m + 1, d |-> d - DaysInMonth(y, m)])

PDFDateFormats ==
  << [sep |-> "/", order |-> "dmy"], [sep |-> "/", order |-> "mdy"],
     [sep |-> "-", order |-> "dmy"], [sep |-> "-", order |-> "mdy"],
     [sep |-> "-", order |-> "ymd"], [sep |-> "/", order |-> "ymd"],
     [sep |-> ".", order |-> "dmy"], [sep |-> ".", order |-> "mdy"] >>

\* PDFParser.parseDate: an optional day number
PDFParser_parseDate(dateStr) ==
  IF dateStr = << >> THEN None
  ELSE LET t == trim(dateStr)
           cleaned == PickIdx(t, {k \in 1..Len(t) :
                                    t[k] \in DigitChars \cup {"/", "-", "."}})
           byFormat == FirstValid(cleaned, PDFDateFormats)
           native == nativeDate(cleaned)
       IN IF byFormat # None
            THEN Some(DateOf(IF byFormat[1].y < 1970
                               THEN [byFormat[1] EXCEPT !.y = @ + 2000]
                               ELSE byFormat[1]))
          ELSE IF native # None /\ native[1].y > 1900
            THEN Some(DateOf(native[1]))
          ELSE None

(***************************************************************************)
(* Amounts.  The amount strings of the model have at most two decimals and *)
(* no exponent.                                                            *)
(***************************************************************************)
LeadingDigits(s) ==
  LET other == {k \in 1..Len(s) : s[k] \notin DigitChars}
  IN IF other = {} THEN Len(s) ELSE MinOf(other) - 1

\* parseFloat: an optional signed number of hundredths (None: NaN)
parseFloat(s) ==
  LET signed == s # << >> /\ s[1] \in {"-", "+"}
      body == IF signed THEN Tail(s) ELSE s
      n == LeadingDigits(body)
      rest == SubSeq(body, n + 1, Len(body))
      frac == IF rest # << >> /\ rest[1] = "."
                THEN SubSeq(Tail(rest), 1, Min2(2, LeadingDigits(Tail(rest))))
                ELSE << >>
      whole == IF n = 0 THEN 0 ELSE NumberOf(SubSeq(body, 1, n))
      cents == IF frac = << >> THEN 0
               ELSE IF Len(frac) = 1 THEN 10 * NumberOf(frac)
               ELSE NumberOf(frac)
      value == whole * 100 + cents
  IN IF n = 0 /\ frac = << >> THEN None
     ELSE Some(IF signed /\ s[1] = "-" THEN 0 - value ELSE value)

\* the currency signs, commas, white space and parentheses parseAmount removes
AmountNoise == {"₦", "$", "€", "£", "¥", ",", " ", NL, "\t", "(", ")"}
RemoveNoise(s) == PickIdx(s, {k \in 1..Len(s) : s[k] \notin AmountNoise})

\* PDFParser.parseAmount
PDFParser_parseAmount(amountStr) ==
  IF amountStr = << >> THEN 0
  ELSE LET cleaned == trim(RemoveNoise(amountStr))
           dots == {k \in 1..Len(cleaned) : cleaned[k] = "."}
           normalizedAmount ==
             IF Cardinality(dots) > 1
               THEN PickIdx(cleaned, {k \in 1..Len(cleaned) :
                                        cleaned[k] # "." \/ k = MaxOf(dots)})
               ELSE cleaned
           amount == parseFloat(normalizedAmount)
       IN IF amount = None THEN 0 ELSE Abs(amount[1])

(***************************************************************************)
(* PDFParser.                                                              *)
(***************************************************************************)
bankIndicators ==
  << [bank |-> "opay",
      indicators |-> << << "O", "P", "a", "y" >>, << "O", "W", "e", "a", "l", "t", "h", " ", "B", "a", "l", "a", "n", "c", "e" >>,
                        << "B", "l", "u", "e", " ", "R", "i", "d", "g", "e", " ", "M", "i", "c", "r", "o", "f", "i", "n", "a", "n", "c", "e" >>,
                        << "W", "a", "l", "l", "e", "t", " ", "A", "c", "c", "o", "u", "n", "t", " ", "&", " ", "S", "a", "v", "i", "n", "g", "s", " ", "A", "c", "c", "o", "u", "n", "t" >> >>],
     [bank |-> "gtbank",
      indicators |-> << << "G", "u", "a", "r", "a", "n", "t", "y", " ", "T", "r", "u", "s", "t", " ", "B", "a", "n", "k" >>, << "G", "T", "B", "a", "n", "k" >>, << "g", "t", "b" >> >>],
     [bank |-> "access",
      indicators |-> << << "A", "c", "c", "e", "s", "s", " ", "B", "a", "n", "k" >>, << "D", "i", "a", "m", "o", "n", "d", " ", "B", "a", "n", "k" >> >>],
     [bank |-> "firstbank",
      indicators |-> << << "F", "i", "r", "s", "t", " ", "B", "a", "n", "k" >>, << "F", "i", "r", "s", "t", "B", "a", "n", "k" >> >>],
     [bank |-> "zenith", indicators |-> << << "Z", "e", "n", "i", "t", "h", " ", "B", "a", "n", "k" >> >>],
     [bank |-> "uba",
      indicators |-> << << "U", "n", "i", "t", "e", "d", " ", "B", "a", "n", "k", " ", "f", "o", "r", " ", "A", "f", "r", "i", "c", "a" >>, << "U", "B", "A", " ", "B", "a", "n", "k" >>, << " ", "U", "B", "A", " " >> >>],
     [bank |-> "fidelity", indicators |-> << << "F", "i", "d", "e", "l", "i", "t", "y", " ", "B", "a", "n", "k" >> >>],
     [bank |-> "wema", indicators |-> << << "W", "e", "m", "a", " ", "B", "a", "n", "k" >> >>],
     [bank |-> "union", indicators |-> << << "U", "n", "i", "o", "n", " ", "B", "a", "n", "k" >> >> ] >>

\* indicator.toLowerCase() for every indicator, computed once
lowerIndicators ==
  [b \in 1..Len(bankIndicators) |->
     [k \in 1..Len(bankIndicators[b].indicators) |->
        toLowerCase(bankIndicators[b].indicators[k])]]

\* PDFParser.detectBankType: the first bank of the registry, opay first, one
\* of whose indicators is a substring of the lower-cased text
detectBankType(text) ==
  LET lowerText == toLowerCase(text)
      found == {b \in 1..Len(bankIndicators) :
                  \E k \in 1..Len(lowerIndicators[b]) :
                     Includes(lowerText, lowerIndicators[b][k])}
  IN IF found = {} THEN "generic" ELSE bankIndicators[MinOf(found)].bank

\* /\d{2}[-/]\d{2}[-/]\d{4}/ and /[\d,]+\.\d{2}/ on a whole word
IsDateWord(w) ==
  /\ Len(w) = 10
  /\ \A k \in {1, 2, 4, 5, 7, 8, 9, 10} : w[k] \in DigitChars
  /\ w[3] \in {"-", "/"}
  /\ w[6] \in {"-", "/"}
IsAmountWord(w) ==
  /\ Len(w) >= 4
  /\ w[Len(w) - 2] = "."
  /\ w[Len(w) - 1] \in DigitChars
  /\ w[Len(w)] \in DigitChars
  /\ \A k \in 1..(Len(w) - 3) : w[k] \in DigitChars \cup {","}
DR == << "D", "R" >>
CR == << "C", "R" >>

\* line.match(transactionRegex) of parseAccessBankPDF, on a line whose words
\* are one blank apart and where a date or an amount is a whole word: the
\* leftmost date and, after at least one word of description, the nearest
\* DR or CR followed by two amounts.  w is the words of the line.
AccessEnds(w, i) ==
  {j \in (i + 2)..(Len(w) - 2) :
     w[j] \in {DR, CR} /\ IsAmountWord(w[j + 1]) /\ IsAmountWord(w[j + 2])}
AccessStarts(w) == {i \in 1..Len(w) : IsDateWord(w[i]) /\ AccessEnds(w, i) # {}}
AccessGroups(w, i, j) ==
  [dateStr |-> w[i],
   description |-> JoinWords(SubSeq(w, i + 1, j - 1)),
   type |-> w[j],
   amountStr |-> w[j + 1],
   balanceStr |-> w[j + 2]]
AccessMatchFrom(w, starts) ==
  IF starts = {} THEN None
  ELSE Some(AccessGroups(w, MinOf(starts), MinOf(AccessEnds(w, MinOf(starts)))))
AccessMatch(line) == AccessMatchFrom(SplitWords(line), AccessStarts(SplitWords(line)))

\* the body of the loop of parseAccessBankPDF: the transaction pushed for a
\* match and its parsed date, when one is pushed
AccessPushed(match, date) ==
  IF date = None THEN None
  ELSE Some([description |-> trim(match.description),
             amount |-> PDFParser_parseAmount(match.amountStr),
             date |-> date[1],
             type |-> IF match.type = DR THEN "debit" ELSE "credit",
             balance |-> Some(PDFParser_parseAmount(match.balanceStr))])
AccessLine(match) ==
  IF match = None THEN None
  ELSE AccessPushed(match[1], PDFParser_parseDate(match[1].dateStr))
AccessLines(lines) ==
  Present([k \in 1..Len(lines) |-> AccessLine(AccessMatch(lines[k]))])

\* PDFParser.parseAccessBankPDF
parseAccessBankPDF(text) == AccessLines(NonEmptyLines(text))

\* line.match(transactionRegex) of parseFirstBankPDF and parseZenithBankPDF,
\* on a line whose words are one blank apart: each optional amount stands
\* between two runs of blanks, so the line matches only with the debit, the
\* credit and the balance all present
ColumnsEnds(w, i) ==
  {j \in (i + 2)..(Len(w) - 2) :
     IsAmountWord(w[j]) /\ IsAmountWord(w[j + 1]) /\ IsAmountWord(w[j + 2])}
ColumnsStarts(w) == {i \in 1..Len(w) : IsDateWord(w[i]) /\ ColumnsEnds(w, i) # {}}
ColumnsGroups(w, i, j) ==
  [dateStr |-> w[i],
   description |-> JoinWords(SubSeq(w, i + 1, j - 1)),
   debitStr |-> w[j],
   creditStr |-> w[j + 1],
   balanceStr |-> w[j + 2]]
ColumnsMatchFrom(w, starts) ==
  IF starts = {} THEN None
  ELSE Some(ColumnsGroups(w, MinOf(starts), MinOf(ColumnsEnds(w, MinOf(starts)))))
ColumnsMatch(line) == ColumnsMatchFrom(SplitWords(line), ColumnsStarts(SplitWords(line)))

\* the body of the loop of parseFirstBankPDF: the transaction pushed for a
\* match, its parsed date and its parsed debit and credit, when one is pushed
ColumnsPushed(match, date, debit, credit) ==
  IF date = None \/ (debit <= 0 /\ credit <= 0) THEN None
  ELSE Some([description |-> trim(match.description),
             amount |-> IF debit > 0 THEN debit ELSE credit,
             date |-> date[1],
             type |-> IF debit > 0 THEN "debit" ELSE "credit",
             balance |-> Some(PDFParser_parseAmount(match.balanceStr))])
ColumnsLine(match) ==
  IF match = None THEN None
  ELSE ColumnsPushed(match[1], PDFParser_parseDate(match[1].dateStr),
                     PDFParser_parseAmount(match[1].debitStr),
                     PDFParser_parseAmount(match[1].creditStr))
ColumnsLines(lines) ==
  Present([k \in 1..Len(lines) |-> ColumnsLine(ColumnsMatch(lines[k]))])

\* PDFParser.parseFirstBankPDF
parseFirstBankPDF(text) == ColumnsLines(NonEmptyLines(text))

\* PDFParser.parseZenithBankPDF: the same expression and the same loop
parseZenithBankPDF(text) == ColumnsLines(NonEmptyLines(text))

\* the dialects whose parser is modelled
ModelledDialects == {"access", "firstbank", "zenith"}

\* the switch of PDFParser.parse
ParseAs(bankType, text) ==
  IF bankType = "access" THEN parseAccessBankPDF(text)
  ELSE IF bankType = "firstbank" THEN parseFirstBankPDF(text)
  ELSE parseZenithBankPDF(text)

\* PDFParser.parse, for a text of a modelled dialect
PDFParser_parse(text) == ParseAs(detectBankType(text), text)

(***************************************************************************)
(* CSVParser.  A row is the object csv-parser builds from the header line  *)
(* and one line of cells; every cell is a string.                          *)
(***************************************************************************)
\* row[field]: the cell under the header of that name (None: undefined)
Cell(row, field) ==
  LET ks == {k \in 1..Min2(Len(row.headers), Len(row.cells)) :
               row.headers[k] = field}
  IN IF ks = {} THEN None ELSE Some(row.cells[MaxOf(ks)])
\* a string value in a condition: defined and not empty
Truthy(v) == v # None /\ v[1] # << >>
\* the value, if it is defined and not empty
IfTruthy(v) == IF Truthy(v) THEN v ELSE None
\* the cells of the row under the fields, field by field
Cells(row, fields) == [k \in 1..Len(fields) |-> Cell(row, fields[k])]

\* parseISO of date-fns on a string yyyy-MM-dd
parseISO(s) == parseFormat(s, [sep |-> "-", order |-> "ymd"])

CSVDateFormats ==
  << [sep |-> "-", order |-> "ymd"], [sep |-> "/", order |-> "dmy"],
     [sep |-> "/", order |-> "mdy"], [sep |-> "-", order |-> "dmy"],
     [sep |-> "-", order |-> "mdy"], [sep |-> "/", order |-> "ymd"] >>

\* CSVParser.parseDate, and ExcelParser.parseDate of a string: an optional
\* day number
CSVParser_parseDate(dateStr) ==
  LET isoDate == parseISO(dateStr)
      byFormat == FirstValid(dateStr, CSVDateFormats)
      native == nativeDate(dateStr)
  IN IF isoDate # None THEN Some(DateOf(isoDate[1]))
     ELSE IF byFormat # None THEN Some(DateOf(byFormat[1]))
     ELSE IF native # None THEN Some(DateOf(native[1]))
     ELSE None

\* CSVParser.parseAmount, and ExcelParser.parseAmount, of a string: a signed
\* number of hundredths
CSVParser_parseAmount(amountStr) ==
  LET cleanedAmount == trim(RemoveNoise(amountStr))
      amount == parseFloat(cleanedAmount)
  IN IF cleanedAmount = << >> \/ cleanedAmount = << "-" >> THEN 0
     ELSE IF amount = None THEN 0 ELSE amount[1]

CSVDateFields ==
  << << "T", "r", "a", "n", "s", "a", "c", "t", "i", "o", "n", " ", "D", "a", "t", "e" >>, << "D", "a", "t", "e" >>, << "T", "R", "A", "N", "S", " ", "D", "A", "T", "E" >>, << "T", "r", "a", "n", "s", "a", "c", "t", "i", "o", "n", "_", "D", "a", "t", "e" >>,
     << "d", "a", "t", "e" >>, << "t", "r", "a", "n", "s", "a", "c", "t", "i", "o", "n", "_", "d", "a", "t", "e" >>, << "V", "a", "l", "u", "e", " ", "D", "a", "t", "e" >>, << "V", "A", "L", "U", "E", "_", "D", "A", "T", "E" >> >>
CSVDescFields ==
  << << "N", "a", "r", "r", "a", "t", "i", "o", "n" >>, << "D", "e", "s", "c", "r", "i", "p", "t", "i", "o", "n" >>, << "D", "E", "S", "C", "R", "I", "P", "T", "I", "O", "N" >>, << "M", "e", "m", "o" >>,
     << "n", "a", "r", "r", "a", "t", "i", "o", "n" >>, << "d", "e", "s", "c", "r", "i", "p", "t", "i", "o", "n" >>, << "m", "e", "m", "o" >>, << "D", "e", "t", "a", "i", "l", "s" >>, << "d", "e", "t", "a", "i", "l", "s" >> >>
CSVDebitFields == << << "D", "e", "b", "i", "t" >>, << "D", "E", "B", "I", "T" >>, << "d", "e", "b", "i", "t" >>, << "D", "R" >>, << "W", "i", "t", "h", "d", "r", "a", "w", "a", "l" >> >>
CSVCreditFields == << << "C", "r", "e", "d", "i", "t" >>, << "C", "R", "E", "D", "I", "T" >>, << "c", "r", "e", "d", "i", "t" >>, << "C", "R" >>, << "D", "e", "p", "o", "s", "i", "t" >> >>
CSVAmountFields == << << "A", "m", "o", "u", "n", "t" >>, << "A", "M", "O", "U", "N", "T" >>, << "a", "m", "o", "u", "n", "t" >>, << "V", "a", "l", "u", "e" >> >>
CSVTypeFields == << << "T", "y", "p", "e" >>, << "T", "Y", "P", "E" >>, << "t", "y", "p", "e" >>, << "T", "r", "a", "n", "s", "a", "c", "t", "i", "o", "n", " ", "T", "y", "p", "e" >> >>
CSVBalanceFields ==
  << << "B", "a", "l", "a", "n", "c", "e" >>, << "B", "A", "L", "A", "N", "C", "E" >>, << "b", "a", "l", "a", "n", "c", "e" >>, << "R", "u", "n", "n", "i", "n", "g", " ", "B", "a", "l", "a", "n", "c", "e" >> >>
UnknownTransaction == << "U", "n", "k", "n", "o", "w", "n", " ", "T", "r", "a", "n", "s", "a", "c", "t", "i", "o", "n" >>

\* the date of a cell, if the cell is there and is a valid date
CSVDateIn(v) == IF Truthy(v) THEN CSVParser_parseDate(v[1]) ELSE None
\* the amount of a cell, if the cell is there and the amount is positive
PositiveIn(v) ==
  IF Truthy(v) /\ CSVParser_parseAmount(v[1]) > 0
    THEN Some(CSVParser_parseAmount(v[1])) ELSE None
\* the amount of a cell, if the cell is there
AmountIn(v) == IF Truthy(v) THEN Some(CSVParser_parseAmount(v[1])) ELSE None
\* the type a cell names, if the cell is there and names one
TypeNamed(typeValue) ==
  IF Includes(toLowerCase(typeValue), << "d", "e", "b", "i", "t" >>)
       \/ Includes(toLowerCase(typeValue), << "d", "r" >>)
       \/ Includes(toLowerCase(typeValue), << "w", "i", "t", "h", "d", "r", "a", "w", "a", "l" >>)
    THEN Some("debit")
  ELSE IF Includes(toLowerCase(typeValue), << "c", "r", "e", "d", "i", "t" >>)
       \/ Includes(toLowerCase(typeValue), << "c", "r" >>)
       \/ Includes(toLowerCase(typeValue), << "d", "e", "p", "o", "s", "i", "t" >>)
    THEN Some("credit")
  ELSE None
TypeIn(v) == IF Truthy(v) THEN TypeNamed(v[1]) ELSE None
\* what a loop over cells looks at, cell by cell
DatesIn(vs) == [k \in 1..Len(vs) |-> CSVDateIn(vs[k])]
TruthyIn(vs) == [k \in 1..Len(vs) |-> IfTruthy(vs[k])]
PositivesIn(vs) == [k \in 1..Len(vs) |-> PositiveIn(vs[k])]
TypesIn(vs) == [k \in 1..Len(vs) |-> TypeIn(vs[k])]
OrZero(o) == IF o = None THEN 0 ELSE o[1]

\* CSVParser.extractDate
CSVParser_extractDate(row) == FirstPresent(DatesIn(Cells(row, CSVDateFields)))

\* the description of the first description field that has one, or the default
DescriptionOr(cell) == IF cell = None THEN UnknownTransaction ELSE trim(cell[1])

\* CSVParser.extractDescription
CSVParser_extractDescription(row) ==
  DescriptionOr(FirstPresent(TruthyIn(Cells(row, CSVDescFields))))

\* the end of extractAmount: debitAmount and creditAmount are the first
\* positive amounts of the debit and credit fields (0: none), amountCell the
\* first amount field that is there, typeNamed the first type a type field names
AmountAndType(debitAmount, creditAmount, amountCell, typeNamed) ==
  IF debitAmount > 0 /\ creditAmount = 0
    THEN [amount |-> debitAmount, type |-> "debit"]
  ELSE IF creditAmount > 0 /\ debitAmount = 0
    THEN [amount |-> creditAmount, type |-> "credit"]
  ELSE IF amountCell = None THEN [amount |-> 0, type |-> "debit"]
  ELSE IF typeNamed # None
    THEN [amount |-> Abs(OrZero(AmountIn(amountCell))), type |-> typeNamed[1]]
  ELSE [amount |-> Abs(OrZero(AmountIn(amountCell))),
        type |-> IF OrZero(AmountIn(amountCell)) < 0 THEN "debit" ELSE "credit"]

\* CSVParser.extractAmount
CSVParser_extractAmount(row) ==
  AmountAndType(OrZero(FirstPresent(PositivesIn(Cells(row, CSVDebitFields)))),
                OrZero(FirstPresent(PositivesIn(Cells(row, CSVCreditFields)))),
                FirstPresent(TruthyIn(Cells(row, CSVAmountFields))),
                FirstPresent(TypesIn(Cells(row, CSVTypeFields))))

\* extractBalance, and `balance || undefined` of the row parsers
BalanceOf(cell) ==
  IF OrZero(AmountIn(cell)) = 0 THEN None ELSE AmountIn(cell)

\* CSVParser.extractBalance
CSVParser_extractBalance(row) ==
  BalanceOf(FirstPresent(TruthyIn(Cells(row, CSVBalanceFields))))

\* the end of parseCSVRow and of parseExcelRow: an optional transaction
RowTransaction(date, description, at, balance) ==
  IF date = None \/ description = << >> \/ at.amount = 0 THEN None
  ELSE Some([description |-> trim(description),
             amount |-> Abs(at.amount),
             date |-> date[1],
             type |-> at.type,
             balance |-> balance])

\* CSVParser.parseCSVRow
parseCSVRow(row) ==
  RowTransaction(CSVParser_extractDate(row), CSVParser_extractDescription(row),
                 CSVParser_extractAmount(row), CSVParser_extractBalance(row))

\* CSVParser.parse: content is the header line and the lines of cells
CSVParser_parse(content) ==
  Present([k \in 1..Len(content.lines) |->
             parseCSVRow([headers |-> content.headers, cells |-> content.lines[k]])])

(***************************************************************************)
(* ExcelParser.  The sheet is a sequence of rows of cells; every cell is a *)
(* string, the empty cell the empty string.                                *)
(***************************************************************************)
headerIndicators ==
  << << "d", "a", "t", "e" >>, << "t", "r", "a", "n", "s", "a", "c", "t", "i", "o", "n", " ", "d", "a", "t", "e" >>, << "t", "r", "a", "n", "s", " ", "d", "a", "t", "e" >>, << "v", "a", "l", "u", "e", " ", "d", "a", "t", "e" >>,
     << "d", "e", "s", "c", "r", "i", "p", "t", "i", "o", "n" >>, << "n", "a", "r", "r", "a", "t", "i", "o", "n" >>, << "m", "e", "m", "o" >>, << "d", "e", "t", "a", "i", "l", "s" >>,
     << "a", "m", "o", "u", "n", "t" >>, << "d", "e", "b", "i", "t" >>, << "c", "r", "e", "d", "i", "t" >>, << "b", "a", "l", "a", "n", "c", "e" >>,
     << "t", "y", "p", "e" >>, << "r", "e", "f", "e", "r", "e", "n", "c", "e" >>, << "r", "e", "f" >> >>

\* Math.ceil(n * 0.6)
CeilSixtyPercent(n) == (6 * n + 9) \div 10

\* ExcelParser.looksLikeHeaderRow
looksLikeHeaderRow(row) ==
  IF Len(row) < 3 THEN FALSE
  ELSE LET cellText == [k \in 1..Len(row) |-> trim(toLowerCase(row[k]))]
           matches == {k \in 1..Len(row) :
                         \E i \in 1..Len(headerIndicators) :
                            Includes(cellText[k], headerIndicators[i])}
       IN Cardinality(matches) >= CeilSixtyPercent(Len(row))

\* headers.find(header => header.toLowerCase().includes(field.toLowerCase()))
MatchingHeader(headers, field) ==
  LET ks == {k \in 1..Len(headers) :
               Includes(toLowerCase(headers[k]), toLowerCase(field))}
  IN IF ks = {} THEN None ELSE Some(headers[MinOf(ks)])

\* rowData[matchingHeader] of a field, when a header matches
ByMatchingHeader(row, field) ==
  LET h == MatchingHeader(row.headers, field)
  IN IF h = None THEN None ELSE Cell(row, h[1])

ExcelDateFields ==
  CSVDateFields \o << << "t", "r", "a", "n", "s", " ", "d", "a", "t", "e" >>, << "v", "a", "l", "u", "e", " ", "d", "a", "t", "e" >> >>
ExcelDescFields ==
  CSVDescFields \o << << "t", "r", "a", "n", "s", "a", "c", "t", "i", "o", "n", " ", "d", "e", "s", "c", "r", "i", "p", "t", "i", "o", "n" >>, << "t", "r", "a", "n", "s", " ", "d", "e", "s", "c", "r", "i", "p", "t", "i", "o", "n" >> >>
ExcelDebitFields == CSVDebitFields \o << << "d", "e", "b", "i", "t", " ", "a", "m", "o", "u", "n", "t" >> >>
ExcelCreditFields == CSVCreditFields \o << << "c", "r", "e", "d", "i", "t", " ", "a", "m", "o", "u", "n", "t" >> >>
ExcelAmountFields == CSVAmountFields \o << << "t", "r", "a", "n", "s", "a", "c", "t", "i", "o", "n", " ", "a", "m", "o", "u", "n", "t" >> >>
ExcelTypeFields == << << "T", "y", "p", "e" >>, << "T", "Y", "P", "E" >>, << "t", "y", "p", "e" >>, << "T", "r", "a", "n", "s", "a", "c", "t", "i", "o", "n", " ", "T", "y", "p", "e" >>,
                      << "t", "r", "a", "n", "s", " ", "t", "y", "p", "e" >> >>
ExcelBalanceFields == CSVBalanceFields \o << << "A", "c", "c", "o", "u", "n", "t", " ", "B", "a", "l", "a", "n", "c", "e" >> >>

\* the cells of the row under the headers matching the fields, field by field
LooseCells(row, fields) ==
  [k \in 1..Len(fields) |-> ByMatchingHeader(row, fields[k])]
\* the cells of the row under the fields and under the headers matching
\* them, field by field: first the exact one, then the matching one
BothCells(row, fields) ==
  [k \in 1..(2 * Len(fields)) |->
     IF k % 2 = 1 THEN Cell(row, fields[(k + 1) \div 2])
     ELSE ByMatchingHeader(row, fields[k \div 2])]

\* ExcelParser.extractDate
ExcelParser_extractDate(row) ==
  FirstPresent(DatesIn(BothCells(row, ExcelDateFields)))

\* ExcelParser.extractDescription
ExcelParser_extractDescription(row) ==
  DescriptionOr(FirstPresent(TruthyIn(BothCells(row, ExcelDescFields))))

\* ExcelParser.extractAmount
ExcelParser_extractAmount(row) ==
  AmountAndType(OrZero(FirstPresent(PositivesIn(LooseCells(row, ExcelDebitFields)))),
                OrZero(FirstPresent(PositivesIn(LooseCells(row, ExcelCreditFields)))),
                FirstPresent(TruthyIn(LooseCells(row, ExcelAmountFields))),
                FirstPresent(TypesIn(LooseCells(row, ExcelTypeFields))))

\* ExcelParser.extractBalance
ExcelParser_extractBalance(row) ==
  BalanceOf(FirstPresent(TruthyIn(LooseCells(row, ExcelBalanceFields))))

\* ExcelParser.parseExcelRow
parseExcelRow(row) ==
  RowTransaction(ExcelParser_extractDate(row), ExcelParser_extractDescription(row),
                 ExcelParser_extractAmount(row), ExcelParser_extractBalance(row))

\* the index of the header row among the first ten rows, or 0
headerRowIndex(data) ==
  IF \A i \in 1..Min2(10, Len(data)) : ~looksLikeHeaderRow(data[i]) THEN 0
  ELSE MinOf({i \in 1..Min2(10, Len(data)) : looksLikeHeaderRow(data[i])})

\* row.map(cell => String(cell || '').trim())
Headers(row) == [k \in 1..Len(row) |-> trim(row[k])]

HeaderErrorMessage == "Could not find header row in Excel file"
NoDataMessage == "No data found in Excel file"
ExcelErrorMessage == "Failed to parse Excel file. Please ensure it's a valid bank statement."

\* the loop of extractTransactionsFromData over the rows below the header
\* row h, or the error thrown when there is none
RowsBelow(data, h) ==
  IF h = 0 THEN [threw |-> Some(HeaderErrorMessage), transactions |-> << >>]
  ELSE [threw |-> None,
        transactions |->
          Present([i \in 1..Len(data) |->
                     IF i <= h \/ data[i] = << >> THEN None
                     ELSE parseExcelRow([headers |-> Headers(data[h]),
                                         cells |-> data[i]])])]

\* ExcelParser.extractTransactionsFromData
extractTransactionsFromData(data) == RowsBelow(data, headerRowIndex(data))

\* the catch of ExcelParser.parse: every error is thrown again as its own
Rethrown(r) ==
  IF r.threw # None
    THEN [threw |-> Some(ExcelErrorMessage), transactions |-> << >>]
    ELSE r

\* ExcelParser.parse: the transactions, or the message of the error thrown
ExcelParser_parse(data) ==
  Rethrown(IF Len(data) = 0
             THEN [threw |-> Some(NoDataMessage), transactions |-> << >>]
             ELSE extractTransactionsFromData(data))

(***************************************************************************)
(* The files of the model.                                                 *)
(***************************************************************************)
MaxPdfLines == 2  \* transaction lines of a PDF statement
MaxRows == 1      \* data rows of a CSV file or of a sheet

\* every sequence of up to n elements of S
SeqsUpTo(S, n) == UNION {[1..k -> S] : k \in 0..n}

PdfTitles == { << "A", "c", "c", "e", "s", "s", " ", "B", "a", "n", "k", " ", "P", "l", "c" >>, << "Z", "e", "n", "i", "t", "h", " ", "B", "a", "n", "k" >>, << "F", "i", "r", "s", "t", " ", "B", "a", "n", "k", " ", "o", "f", " ", "N", "i", "g", "e", "r", "i", "a" >>,
               << "A", "c", "c", "o", "u", "n", "t", " ", "S", "t", "a", "t", "e", "m", "e", "n", "t" >> }
PdfAddresses == { << "5", " ", "M", "a", "r", "i", "n", "a", " ", "R", "o", "a", "d", ",", " ", "L", "a", "g", "o", "s" >>, << "1", "2", " ", "L", "e", "n", "g", "t", "b", "y", " ", "C", "l", "o", "s", "e", ",", " ", "L", "a", "g", "o", "s" >>,
                  << "C", "o", "p", "a", "y", " ", "H", "o", "u", "s", "e", ",", " ", "I", "k", "e", "j", "a" >> }
PdfLines == { << "0", "1", "/", "0", "2", "/", "2", "0", "2", "4", " ", "P", "O", "S", " ", "S", "H", "O", "P", " ", "D", "R", " ", "1", ",", "5", "0", "0", ".", "0", "0", " ", "2", "0", ",", "0", "0", "0", ".", "0", "0" >>,
              << "0", "3", "/", "0", "2", "/", "2", "0", "2", "4", " ", "C", "H", "A", "R", "G", "E", " ", "D", "R", " ", "0", ".", "0", "0", " ", "2", "0", ",", "0", "0", "0", ".", "0", "0" >>,
              << "0", "5", "/", "0", "2", "/", "2", "0", "2", "4", " ", "S", "A", "L", "A", "R", "Y", " ", "C", "R", " ", "5", ",", "0", "0", "0", ".", "0", "0", " ", "2", "5", ",", "0", "0", "0", ".", "0", "0" >>,
              << "4", "5", "/", "6", "7", "/", "2", "0", "2", "4", " ", "V", "O", "I", "D", " ", "D", "R", " ", "1", "0", ".", "0", "0", " ", "2", "5", ",", "0", "0", "0", ".", "0", "0" >>,
              << "0", "7", "/", "0", "2", "/", "2", "0", "2", "4", " ", "T", "R", "A", "N", "S", "F", "E", "R", " ", "2", ",", "0", "0", "0", ".", "0", "0", " ", "0", ".", "0", "0", " ", "2", "3", ",", "0", "0", "0", ".", "0", "0" >>,
              << "0", "9", "/", "0", "2", "/", "2", "0", "2", "4", " ", "R", "E", "F", "U", "N", "D", " ", "0", ".", "0", "0", " ", "7", "0", "0", ".", "0", "0", " ", "2", "3", ",", "7", "0", "0", ".", "0", "0" >> }
PdfTexts ==
  {JoinLines(<< t, a >> \o body) :
     t \in PdfTitles, a \in PdfAddresses, body \in SeqsUpTo(PdfLines, MaxPdfLines)}

DateCells == { << "0", "1", "/", "0", "2", "/", "2", "0", "2", "4" >>, << "2", "0", "2", "4", "-", "0", "2", "-", "0", "3" >>, << "n", "/", "a" >>, << >> }
DescCells == { << "P", "O", "S", " ", "S", "H", "O", "P" >>, << >> }
AmountCells == { << "1", ",", "5", "0", "0", ".", "0", "0" >>, << "-", "2", "5", "0", ".", "0", "0" >>, << "0" >>, << >> }
ColumnCells == { << "5", "0", "0", ".", "0", "0" >>, << >> }

\* a header row and the cells a data row may have under it
Layouts ==
  { [headers |-> << << "D", "a", "t", "e" >>, << "N", "a", "r", "r", "a", "t", "i", "o", "n" >>, << "A", "m", "o", "u", "n", "t" >> >>,
     cells |-> {<< d, n, a >> : d \in DateCells, n \in DescCells, a \in AmountCells}],
    [headers |-> << << "D", "a", "t", "e" >>, << "A", "m", "o", "u", "n", "t" >>, << "B", "a", "l", "a", "n", "c", "e" >> >>,
     cells |-> {<< d, a, b >> : d \in DateCells, a \in AmountCells, b \in ColumnCells}],
    [headers |-> << << "V", "a", "l", "u", "e", " ", "D", "a", "t", "e" >>, << "D", "e", "t", "a", "i", "l", "s" >>, << "D", "e", "b", "i", "t" >>, << "C", "r", "e", "d", "i", "t" >> >>,
     cells |-> {<< d, n, x, y >> : d \in DateCells, n \in DescCells,
                                   x \in ColumnCells, y \in ColumnCells}] }

CsvContents ==
  UNION {{[headers |-> l.headers, lines |-> rs] : rs \in SeqsUpTo(l.cells, MaxRows)} :
           l \in Layouts}

\* a sheet: an optional title row, a header row or a row of other words, and
\* the data rows; and the sheet without rows
SheetTitles == { << >>, << << << "A", "c", "c", "o", "u", "n", "t", " ", "S", "t", "a", "t", "e", "m", "e", "n", "t" >> >> >> }
OtherWords == << << "W", "h", "e", "n" >>, << "W", "h", "a", "t" >>, << "H", "o", "w", " ", "m", "u", "c", "h" >> >>
Sheets ==
  { << >> } \cup
  UNION {{t \o << h >> \o rs :
            t \in SheetTitles, h \in {l.headers, OtherWords},
            rs \in SeqsUpTo(l.cells, MaxRows)} : l \in Layouts}

Files ==
  {[type |-> "pdf", content |-> t] : t \in PdfTexts}
    \cup {[type |-> "csv", content |-> c] : c \in CsvContents}
    \cup {[type |-> "xlsx", content |-> s] : s \in Sheets}

(***************************************************************************)
(* processStatement up to the check of the parser's result.                *)
(***************************************************************************)
\* the check for an empty result, after parseFile has returned
Extracted(transactions) ==
  /\ ledger' = transactions
  /\ IF Len(transactions) = 0
       THEN /\ thrown' = Some(NoTransactionsMessage)
            /\ spc' = "threw"
       ELSE /\ spc' = "save"
            /\ UNCHANGED thrown

\* parseFile has thrown, or has returned and the result is checked
Outcome(r) ==
  IF r.threw # None
    THEN /\ thrown' = r.threw
         /\ spc' = "threw"
         /\ UNCHANGED ledger
    ELSE Extracted(r.transactions)

parseVars == << configured, api, dpc, hookVars, file, status, errorMessage, analysisResult, rows,
                cpc, timer, svcResult, caught, updIdx, strategy, opc, batchStart,
                tasks, categorized, uniqueTx, aiMap, batchPos, gcall,
                consecutiveFailures, deadlinePassed, inflight, hist >>

\* parseFile of a PDF statement of a modelled dialect
ParsePDF ==
  /\ spc = "parse"
  /\ file.type = "pdf"
  /\ detectBankType(file.content) \in ModelledDialects
  /\ Extracted(PDFParser_parse(file.content))
  /\ UNCHANGED parseVars

\* parseFile of a CSV file
ParseCSV ==
  /\ spc = "parse"
  /\ file.type = "csv"
  /\ Extracted(CSVParser_parse(file.content))
  /\ UNCHANGED parseVars

\* parseFile of a spreadsheet
ParseExcel ==
  /\ spc = "parse"
  /\ file.type = "xlsx"
  /\ Outcome(ExcelParser_parse(file.content))
  /\ UNCHANGED parseVars

ParseFile == ParsePDF \/ ParseCSV \/ ParseExcel

\* processStatement has been called on an uploaded file
InitParse ==
  /\ configured = TRUE
  /\ api = "any"
  /\ dpc = "idle"
  /\ NoWebhook
  /\ file \in Files
  /\ ledger = << >>
  /\ status = "processing"
  /\ errorMessage = None
  /\ analysisResult = None
  /\ rows = << >>
  /\ cpc = "racing"
  /\ timer = "armed"
  /\ spc = "parse"
  /\ thrown = None
  /\ svcResult = None
  /\ caught = None
  /\ updIdx = 0
  /\ strategy = "none"
  /\ opc = "idle"
  /\ batchStart = 0
  /\ tasks = << >>
  /\ categorized = << >>
  /\ uniqueTx = << >>
  /\ aiMap = << >>
  /\ batchPos = 0
  /\ gcall = NoCatReply
  /\ consecutiveFailures = 0
  /\ deadlinePassed = FALSE
  /\ inflight = {}
  /\ hist = FreshHist(ledger)

SpecParse == InitParse /\ [][ParseFile]_vars

(***************************************************************************)
(* Webhooks: WebhookController.handleWebhook, WebhookService.processWebhook, *)
(* PartnerService and WebhookVerifier.  The request carries its partner    *)
(* name, the value of the partner's signature header, and the index of its *)
(* raw body among the bodies of the model (0: no raw body).  An HMAC is a  *)
(* string of four hexadecimal digits.                                      *)
(***************************************************************************)
OPAY == << "o", "p", "a", "y" >>
KUDA == << "k", "u", "d", "a" >>
PALMPAY == << "p", "a", "l", "m", "p", "a", "y" >>
\* the list of PartnerService.initialize
supportedPartners == {OPAY, KUDA, PALMPAY}

\* PartnerService.isPartnerSupported
isPartnerSupported(partnerName) == toLowerCase(partnerName) \in partners

\* PartnerService.getPartnerConfigFromEnv: the prefix of the partner's signature
signaturePrefix(name) == IF name = KUDA THEN None ELSE Some(<< "s", "h", "a", "2", "5", "6", "=" >>)

\* PartnerService.getPartnerConfig: the configuration registered under the name
getPartnerConfig(partnerName) ==
  [name |-> toLowerCase(partnerName),
   secretKey |-> toLowerCase(partnerName),
   signaturePrefix |-> signaturePrefix(toLowerCase(partnerName))]

HexChars == Digits \o << "a", "b", "c", "d", "e", "f" >>
IsHex(c) == \E k \in 1..Len(HexChars) : HexChars[k] = ToLowerChar(c)
\* createHmac('sha256', secretKey).update(rawBody).digest('hex')
createHmac(secretKey, rawBody) ==
  << HexChars[Len(secretKey) + 1], HexChars[rawBody + 10], "c", "0" >>

\* Buffer.from(s, 'hex'): the pairs of hexadecimal digits up to the first
\* pair that is not one, in lower case
HexDecode(s) ==
  LET pairs == Len(s) \div 2
      bad == {k \in 1..pairs : ~(IsHex(s[2 * k - 1]) /\ IsHex(s[2 * k]))}
      n == IF bad = {} THEN pairs ELSE MinOf(bad) - 1
  IN [k \in 1..n |-> << ToLowerChar(s[2 * k - 1]), ToLowerChar(s[2 * k]) >>]

\* String.prototype.replace(prefix, ''): the first occurrence is removed
RemoveFirst(s, prefix) ==
  LET at == {k \in 1..(Len(s) - Len(prefix) + 1) :
               SubSeq(s, k, k + Len(prefix) - 1) = prefix}
  IN IF at = {} THEN s
     ELSE SubSeq(s, 1, MinOf(at) - 1) \o SubSeq(s, MinOf(at) + Len(prefix), Len(s))

\* crypto.timingSafeEqual throws when the lengths differ; the catch returns false
timingSafeEqual(a, b) == Len(a) = Len(b) /\ a = b

\* verifySignature with the comparison left out: a signature header is enough
verifySignature_headerOnly(req, partnerConfig) ==
  req.signature # None /\ req.signature[1] # << >>

\* WebhookVerifier.verifySignature
verifySignature(req, partnerConfig) ==
  /\ req.signature # None
  /\ req.signature[1] # << >>
  /\ timingSafeEqual(
       HexDecode(IF partnerConfig.signaturePrefix # None
                   THEN RemoveFirst(req.signature[1], partnerConfig.signaturePrefix[1])
                   ELSE req.signature[1]),
       HexDecode(createHmac(partnerConfig.secretKey, req.rawBody)))

\* the bodies of the model: a payload names its customer (or has none) and
\* an amount
ADA_MAIL == [local |-> "ada", domain |-> << "m", "a", "i", "l", ".", "n", "g" >>]
ADA == [id |-> Some("c1"), name |-> Some("Ada Obi"), email |-> Some(ADA_MAIL)]
Bodies ==
  << [customer |-> Some(ADA), amount |-> 1500, currency |-> Some("NGN")],
     [customer |-> Some([ADA EXCEPT !.email = None]), amount |-> 1500,
      currency |-> Some("NGN")],
     [customer |-> Some([ADA EXCEPT !.name = None]), amount |-> 1500,
      currency |-> Some("NGN")],
     [customer |-> Some(ADA), amount |-> 0, currency |-> Some("NGN")],
     [customer |-> None, amount |-> 1500, currency |-> Some("NGN")] >>

\* PayloadMapper.mapPayload: reading a field of a missing customer throws
mapPayload(partnerName, body) ==
  IF body.customer = None
    THEN [threw |-> Some("Cannot read properties of undefined"), value |-> None]
    ELSE [threw |-> None,
          value |-> Some([user |-> [externalId |-> body.customer[1].id,
                                    name |-> body.customer[1].name,
                                    email |-> body.customer[1].email],
                          transaction |-> [amount |-> body.amount,
                                           currency |-> body.currency]])]

\* PayloadMapper.validateNormalizedPayload: the message it throws, if any
validateNormalizedPayload(payload) ==
  IF payload.user.externalId = None
    THEN Some("Missing required field: user.externalId")
  ELSE IF payload.user.name = None
    THEN Some("Missing required field: user.name")
  ELSE IF payload.transaction.amount <= 0
    THEN Some("Invalid transaction amount")
  ELSE IF payload.transaction.currency = None
    THEN Some("Missing required field: transaction.currency")
  ELSE None

\* processWebhook before processNormalizedWebhook: the message of the first
\* check that fails, if any
Rejection(partnerName, req) ==
  IF ~isPartnerSupported(partnerName)
    THEN Some("Unsupported partner")
  ELSE IF ~verifySignature(req, getPartnerConfig(partnerName))
    THEN Some("Invalid webhook signature")
  ELSE IF mapPayload(partnerName, Bodies[req.rawBody]).threw # None
    THEN mapPayload(partnerName, Bodies[req.rawBody]).threw
  ELSE validateNormalizedPayload(mapPayload(partnerName, Bodies[req.rawBody]).value[1])

\* the normalized payload of a request that passed the checks
Normalized(req) == mapPayload(req.partner, Bodies[req.rawBody]).value[1]

\* upsertUser: email: webhookUser.email || `${externalId}@${partnerName}.external`
userInput(webhookUser, partnerName) ==
  [email |-> IF webhookUser.email # None
               THEN webhookUser.email[1]
               ELSE [local |-> webhookUser.externalId[1],
                     domain |-> partnerName \o << ".", "e", "x", "t", "e", "r", "n", "a", "l" >>],
   name |-> webhookUser.name[1]]

\* the user row with an e-mail address
UserOf(email) == CHOOSE u \in users : u.email = email

\* res.status(...).json(...)
Respond(code, ok, message) ==
  /\ response' = Some([status |-> code, success |-> ok, message |-> message])
  /\ wpc' = "done"

hookElse == << configured, api, dpc, file, ledger, status, errorMessage, analysisResult,
               rows, cpc, timer, spc, thrown, svcResult, caught, updIdx, strategy,
               opc, batchStart, tasks, categorized, uniqueTx, aiMap, batchPos, gcall,
               consecutiveFailures, deadlinePassed, inflight, hist >>

\* handleWebhook up to the first await of processNormalizedWebhook: the checks
\* of the controller and of processWebhook
HookCheck ==
  /\ wpc = "received"
  /\ IF request.partner = << >>
       THEN Respond(400, FALSE, "Partner parameter is required")
     ELSE IF request.rawBody = 0
       THEN Respond(400, FALSE, "Raw body not available")
     ELSE IF Rejection(request.partner, request) # None
       THEN Respond(400, FALSE, Rejection(request.partner, request)[1])
     ELSE /\ wpc' = "find"
          /\ UNCHANGED response
  /\ UNCHANGED << partners, request, users, hookTransactions, hookElse >>

\* findExistingUser: an error of the store is caught and gives null
HookFindUser ==
  /\ wpc = "find"
  /\ \E ok \in BOOLEAN :
       wpc' = IF ok /\ \E u \in users :
                         u.email = userInput(Normalized(request).user, request.partner).email
                THEN "update" ELSE "create"
  /\ UNCHANGED << partners, request, users, hookTransactions, response, hookElse >>

\* userService.updateUser(existingUser.id, userInput)
HookUpdateUser ==
  /\ wpc = "update"
  /\ \E ok \in BOOLEAN :
       LET input == userInput(Normalized(request).user, request.partner)
       IN IF ok
            THEN /\ users' = {IF u.email = input.email
                                 THEN [u EXCEPT !.name = input.name] ELSE u : u \in users}
                 /\ wpc' = "transaction"
                 /\ UNCHANGED response
            ELSE /\ Respond(400, FALSE, StoreErrorMessage)
                 /\ UNCHANGED users
  /\ UNCHANGED << partners, request, hookTransactions, hookElse >>

\* userService.createUser(userInput): the e-mail address of a user is unique
HookCreateUser ==
  /\ wpc = "create"
  /\ \E ok \in BOOLEAN :
       LET input == userInput(Normalized(request).user, request.partner)
       IN IF ok /\ ~\E u \in users : u.email = input.email
            THEN /\ users' = users \cup {[id |-> "new",
                                            email |-> input.email, name |-> input.name]}
                 /\ wpc' = "transaction"
                 /\ UNCHANGED response
            ELSE /\ Respond(400, FALSE, StoreErrorMessage)
                 /\ UNCHANGED users
  /\ UNCHANGED << partners, request, hookTransactions, hookElse >>

\* createTransaction, and the response of a processed webhook
HookCreateTransaction ==
  /\ wpc = "transaction"
  /\ \E ok \in BOOLEAN :
       IF ok
         THEN /\ hookTransactions' = Append(hookTransactions,
                   [amount |-> Normalized(request).transaction.amount,
                    userId |-> UserOf(userInput(Normalized(request).user,
                                                request.partner).email).id,
                    partner |-> request.partner])
              /\ Respond(200, TRUE, "Webhook processed successfully")
         ELSE /\ Respond(400, FALSE, StoreErrorMessage)
              /\ UNCHANGED hookTransactions
  /\ UNCHANGED << partners, request, users, hookElse >>

HandleWebhook ==
  \/ HookCheck
  \/ HookFindUser
  \/ HookUpdateUser
  \/ HookCreateUser
  \/ HookCreateTransaction

\* the requests of the model
PartnerNames == {OPAY, << "O", "P", "a", "y" >>, KUDA, << "p", "a", "y", "s", "t", "a", "c", "k" >>, << >>}
Signatures(hmac) ==
  {None, Some(hmac), Some(<< "s", "h", "a", "2", "5", "6", "=" >> \o hmac), Some(toLowerCase(hmac) \o << "z", "z" >>),
   Some(<< "0", "0", "0", "0" >>), Some(<< "s", "h", "a", "2", "5", "6", "=", "0", "0", "0", "0" >>), Some(<< "0", "0" >>),
   Some(<< "s", "h", "a", "2", "5", "6", "=" >>), Some(<< >>)}
Requests ==
  UNION {{[partner |-> p, rawBody |-> b, signature |-> s] :
            s \in Signatures(createHmac(toLowerCase(p), IF b = 0 THEN 1 ELSE b))} :
           p \in PartnerNames, b \in 0..Len(Bodies)}
\* the user rows before the webhook: none, or a user with ADA's address
UserStores == {{}, {[id |-> "old", email |-> ADA_MAIL, name |-> "A. Obi"]}}

\* a webhook request has been received
InitWebhook ==
  /\ configured = TRUE
  /\ api = "any"
  /\ dpc = "idle"
  /\ partners \in {{OPAY, KUDA}, {KUDA}}
  /\ request \in Requests
  /\ wpc = "received"
  /\ users \in UserStores
  /\ hookTransactions = << >>
  /\ response = None
  /\ ledger = << >>
  /\ file = NoFile
  /\ RunStart

SpecWebhook == InitWebhook /\ [][HandleWebhook]_vars

(***************************************************************************)
(* Properties.                                                             *)
(***************************************************************************)
Classified(c) ==
  IsPresent(c.category) /\ IsPresent(c.merchant) /\ IsPresent(c.confidence)

\* C1: classification totality.  When categorizeTransactions has returned,
\* for a ledger of either strategy and whatever the external classifier did,
\* there is one result per transaction and each has a category, a merchant
\* and a confidence.
C1_ClassificationTotality ==
  opc = "done" =>
    /\ Len(categorized) = Len(ledger)
    /\ \A i \in 1..Len(categorized) : Classified(categorized[i])

\* C1, its case: a grouped run has returned after the classifier answered one
\* representative and failed on the last one
C1_Witness ==
  /\ opc = "done"
  /\ strategy = "grouped"
  /\ hist.last.failed
  /\ \E i \in 1..Len(categorized) : categorized[i].confidence = Some(95)

\* C2: no partial persistence.  A failed statement has no stored transaction
\* rows and no stored analysis, so that of the two final statuses only
\* completed goes with stored rows or a stored analysis.
C2_NoPartialPersistence ==
  status = "failed" => rows = << >> /\ analysisResult = None

\* the place of the group of transaction i among the representatives
GroupRank(i) ==
  CHOOSE m \in 1..Len(uniqueTx) : KeyOf(ledger[uniqueTx[m]]) = KeyOf(ledger[i])

\* C3: circuit breaker of the grouped strategy.  Once three consecutive
\* attempts of a grouped run have failed at the external classifier, no
\* further request is made, and the run ends with the fallback confidence 0.3
\* for every group that was unresolved then.
C3_BreakerStopsCalls ==
  [][(strategy = "grouped" /\ hist.streak >= MAX_CONSECUTIVE_FAILURES) =>
       /\ inflight' \subseteq inflight
       /\ opc' = "done" =>
            \A i \in 1..Len(ledger) :
               GroupRank(i) > hist.tripAt => categorized'[i].confidence = Some(30)]_vars

C5_TimeoutCountsAsFailure ==
  [][(strategy = "grouped" /\ aiMap' # aiMap /\ hist'.last.timedOut) =>
       consecutiveFailures' = consecutiveFailures + 1]_vars

\* C6: cancellation on the outer timeout.  Once the timer of
\* processStatementAsync has fired, no request to the external classifier is
\* started.
C6_NoRequestAfterTimeout ==
  [][timer = "fired" => inflight' \subseteq inflight]_vars

\* C7: work is discarded on the outer timeout.  Once the statement is marked
\* failed with the timeout message, no row of the statement is written.
C7_NoWriteAfterTimeout ==
  [][(status = "failed" /\ errorMessage = Some(TimeoutMessage)) =>
       rows' = rows]_vars

\* C8: the status of a statement is created as processing, is always one of
\* processing, completed and failed, and changes only from processing to
\* completed or to failed.
C8_StatusStateMachine ==
  [][/\ status' \in {"none", "processing", "completed", "failed"}
     /\ status = "none" => status' \in {"none", "processing"}
     /\ status = "processing" => status' \in {"processing", "completed", "failed"}
     /\ status = "completed" => status' = "completed"
     /\ status = "failed" => status' = "failed"]_vars

\* C8, its case: the timer fired, the statement was marked failed and
\* processStatement has since returned its result
C8_Witness ==
  /\ status = "failed"
  /\ timer = "fired"
  /\ spc = "returned"

\* C9: one path per result.  The category and the merchant of a resolved
\* transaction (direct strategy) or group (grouped strategy) come from the
\* same path: both from a successful external request or both from a fallback.
C9_OnePathPerResult ==
  /\ strategy = "grouped" => hist.last.catFrom = hist.last.merFrom
  /\ strategy = "direct" =>
       \A k \in DOMAIN tasks :
          (tasks[k].pc = "done" /\ hist.attempt[Slot(k)].catFrom # "none") =>
             hist.attempt[Slot(k)].catFrom = hist.attempt[Slot(k)].merFrom

\* a description without its digits and its punctuation
IsPunctuation(c) == ~IsWordChar(c) /\ ~IsSpace(c)
StripDigitsPunctuation(s) ==
  PickIdx(s, {k \in 1..Len(s) : s[k] \notin DigitChars /\ ~IsPunctuation(s[k])})
Stripped == [d \in {Base[k].description : k \in 1..Len(Base)} |->
               StripDigitsPunctuation(d)]

\* C10: grouping correctness.  Two transactions whose descriptions differ
\* only in digits and punctuation have the same normalized key, and a
\* grouped run gives both the same category and the same merchant.
C10_GroupingCorrectness ==
  \A i \in 1..Len(ledger), j \in 1..Len(ledger) :
     Stripped[ledger[i].description] = Stripped[ledger[j].description] =>
       /\ KeyOf(ledger[i]) = KeyOf(ledger[j])
       /\ (opc = "done" /\ strategy = "grouped") =>
            /\ categorized[i].category = categorized[j].category
            /\ categorized[i].merchant = categorized[j].merchant

\* C11: the fallback confidence is fixed.  A transaction of the direct
\* strategy whose category did not come from a successful reply of the
\* external classifier has confidence 0.3, and when the classifier is not
\* configured every transaction of a finished run has confidence 0.3.
C11_FallbackConfidenceFixed ==
  /\ strategy = "direct" =>
       \A k \in DOMAIN tasks :
          (tasks[k].pc = "done" /\ hist.attempt[Slot(k)].catFrom # "external") =>
             tasks[k].result[1].confidence = Some(30)
  /\ (opc = "done" /\ ~configured) =>
       \A i \in 1..Len(categorized) : categorized[i].confidence = Some(30)

Returned == svcResult[1]
\* the positions of the debits of the ledger that was analysed
DebitIdx == {i \in 1..Len(categorized) : categorized[i].tx.type = "debit"}
RECURSIVE SumAmountsAt(_)
SumAmountsAt(I) ==
  IF I = {} THEN 0
  ELSE LET i == CHOOSE x \in I : TRUE
       IN categorized[i].tx.amount + SumAmountsAt(I \ {i})

\* C13: unusual transactions.  The unusual list holds, in ledger order and
\* cut to 5, exactly the debit transactions whose amount exceeds 3 times the
\* mean amount of the debits of the ledger; a credit is never in it.
C13_UnusualAreDebitsOverDebitMean ==
  spc = "returned" =>
    LET over == {i \in DebitIdx :
                   categorized[i].tx.amount * Cardinality(DebitIdx)
                     > 3 * SumAmountsAt(DebitIdx)}
        order == Sorted(over)
        expected == [m \in 1..Min2(5, Len(order)) |->
                       << categorized[order[m]].tx.date,
                          categorized[order[m]].tx.amount >>]
        unusual == Returned.patterns.unusualTransactions
    IN [m \in 1..Len(unusual) |-> << unusual[m].date, unusual[m].amount >>] = expected

\* the positions of the debits of merchant name
DebitsOfMerchant(name) ==
  {i \in DebitIdx : categorized[i].merchant = Some(name)}

\* C14: recurring payments.  Every reported merchant has at least 3 debit
\* transactions, at most 5 are reported, and no reported merchant has fewer
\* debit transactions than a merchant with at least 3 that is left out.
C14_RecurringTopByCount ==
  spc = "returned" =>
    LET recurring == Returned.patterns.recurringPayments
        reported == {recurring[m].merchant : m \in 1..Len(recurring)}
        merchants == {categorized[i].merchant[1] :
                        i \in {j \in DebitIdx : categorized[j].merchant # None}}
        qualifying == {name \in merchants : Cardinality(DebitsOfMerchant(name)) >= 3}
    IN /\ Len(recurring) <= 5
       /\ reported \subseteq qualifying
       /\ \A r \in reported, q \in qualifying \ reported :
             Cardinality(DebitsOfMerchant(r)) >= Cardinality(DebitsOfMerchant(q))

\* the category a transaction is counted under
CountedUnder(i) ==
  IF categorized[i].category = None THEN "Other" ELSE categorized[i].category[1]
DebitCategories == {CountedUnder(i) : i \in DebitIdx}
DebitsOfCategory(name) == {i \in DebitIdx : CountedUnder(i) = name}

\* C15: category breakdown.  The breakdown has one entry per category of the
\* debits, none for a category that has only credits; an entry's amount is
\* the sum and its count the number of the debits of its category, its
\* percentage its amount as a share of the sum of all debits; the entries are
\* in descending order of amount, and the 10 largest are kept.
C15_CategoryBreakdown ==
  spc = "returned" =>
    LET cats == Returned.categories
        kept == {cats[m].name : m \in 1..Len(cats)}
        total == SumAmountsAt(DebitIdx)
    IN /\ Len(cats) = Min2(10, Cardinality(DebitCategories))
       /\ Cardinality(kept) = Len(cats)
       /\ kept \subseteq DebitCategories
       /\ \A m \in 1..Len(cats) :
            /\ cats[m].amount = SumAmountsAt(DebitsOfCategory(cats[m].name))
            /\ cats[m].transactionCount = Cardinality(DebitsOfCategory(cats[m].name))
            /\ cats[m].percentage = Frac(cats[m].amount * 100, total)
            /\ m > 1 => cats[m - 1].amount >= cats[m].amount
       /\ \A name \in DebitCategories \ kept :
            \A m \in 1..Len(cats) :
               cats[m].amount >= SumAmountsAt(DebitsOfCategory(name))

\* C15, its case: a ledger whose debits have more than 10 categories and
\* which has a credit has been analysed, and 10 entries were kept
C15_Witness ==
  /\ spc = "returned"
  /\ Cardinality(DebitCategories) > 10
  /\ DebitIdx # 1..Len(categorized)
  /\ Len(Returned.categories) = 10

\* C16: the empty ledger.  The analysis of a ledger of zero transactions has
\* zero totals and empty lists, and no error was raised.
C16_EmptyLedgerTolerated ==
  (spc = "returned" /\ categorized = << >>) =>
    /\ thrown = None
    /\ Returned.summary.totalTransactions = 0
    /\ Returned.summary.totalIncome = 0
    /\ Returned.summary.totalExpenses = 0
    /\ Returned.summary.netCashFlow = 0
    /\ Returned.summary.averageBalance = Frac(0, 1)
    /\ Returned.categories = << >>
    /\ Returned.topMerchants = << >>
    /\ Returned.monthlyBreakdown = << >>
    /\ Returned.patterns.recurringPayments = << >>
    /\ Returned.patterns.unusualTransactions = << >>
    /\ Returned.patterns.spendingTrends = << >>

\* C16, its case: the empty ledger has been analysed
C16_Witness ==
  /\ spc = "returned"
  /\ categorized = << >>
  /\ svcResult # None

\* an occurrence of the phrase in the text between characters that are not
\* word characters: the phrase stands there as words of its own
StandsAlone(text, phrase) ==
  \E k \in 1..(Len(text) - Len(phrase) + 1) :
     /\ SubSeq(text, k, k + Len(phrase) - 1) = phrase
     /\ k = 1 \/ ~IsWordChar(text[k - 1])
     /\ k + Len(phrase) - 1 = Len(text) \/ ~IsWordChar(text[k + Len(phrase)])

\* the banks one of whose indicators stands alone in the text, in any case
GenuineBanks(text) ==
  {bankIndicators[b].bank : b \in
     {c \in 1..Len(bankIndicators) :
        \E k \in 1..Len(lowerIndicators[c]) :
           StandsAlone(toLowerCase(text), trim(lowerIndicators[c][k]))}}

\* C17: dialect specificity.  detectBankType returns generic or a bank one of
\* whose indicator phrases genuinely occurs in the text; it never returns a
\* bank whose only match is a short code inside an unrelated word.
C17_DialectSpecificity ==
  file.type = "pdf" =>
    detectBankType(file.content) \in {"generic"} \cup GenuineBanks(file.content)

\* C18: extractor failure semantics.  When parseFile and the check of its
\* result are over, either the extraction gave a list of records or the
\* statement failed with the no-transactions-found error: no other error comes
\* out of an extractor.
C18_ExtractorFailureSemantics ==
  spc = "threw" => thrown = Some(NoTransactionsMessage)

\* C19: positive-amount invariant.  Every transaction an extractor produced
\* has an amount strictly greater than 0 and the type debit or credit.
C19_PositiveAmount ==
  file # NoFile =>
    \A i \in 1..Len(ledger) :
       ledger[i].amount > 0 /\ ledger[i].type \in {"debit", "credit"}

\* the row has a description: a description column with a cell that is not empty
YieldsDescription(row) ==
  \E k \in 1..Len(CSVDescFields) :
     /\ Cell(row, CSVDescFields[k]) # None
     /\ trim(Cell(row, CSVDescFields[k])[1]) # << >>

\* the rows of the CSV file that yield a valid date, a description and an
\* amount other than 0
RowsToKeep ==
  {k \in 1..Len(file.content.lines) :
     LET row == [headers |-> file.content.headers, cells |-> file.content.lines[k]]
     IN /\ CSVParser_extractDate(row) # None
        /\ YieldsDescription(row)
        /\ CSVParser_extractAmount(row).amount # 0}

\* C20: row filtering of a CSV file.  The transactions extracted are those of
\* the rows with a valid date, a description that is not empty and an amount
\* that is not 0; a row without a description column, or with an empty
\* description cell, is dropped.
C20_RowFiltering ==
  (file.type = "csv" /\ spc # "parse") =>
    Len(ledger) = Cardinality(RowsToKeep)

\* the cap the documentation gives for the grouped strategy: "Max 50 unique
\* transactions with AI, rest use fallback"
MAX_UNIQUE_WITH_AI == 50

\* the ledger positions of the representatives of the first n patterns
FirstRepresentatives(n) == {uniqueTx[m] : m \in 1..Min2(n, Len(uniqueTx))}

\* the position of a pattern among the unique patterns of the run
PatternRank(key) ==
  CHOOSE m \in 1..Len(uniqueTx) : KeyOf(ledger[uniqueTx[m]]) = key

\* C21: cap of the grouped strategy.  In a grouped run only the first 50
\* unique description patterns are sent to the external classifier: every
\* request in flight is for the representative of one of them, and when the
\* run has returned every transaction of a further pattern has the fallback
\* classification.
C21_PatternCap ==
  strategy = "grouped" =>
    /\ \A q \in inflight : q[1] \in FirstRepresentatives(MAX_UNIQUE_WITH_AI)
    /\ opc = "done" =>
         \A i \in 1..Len(ledger) :
            PatternRank(KeyOf(ledger[i])) > MAX_UNIQUE_WITH_AI =>
              categorized[i] = FallbackResult(ledger[i])

\* the webhook request names a registered partner and its signature header
\* carries the HMAC of the raw body under the secret of that partner
Authentic ==
  /\ toLowerCase(request.partner) \in partners
  /\ request.signature # None
  /\ Includes(toLowerCase(request.signature[1]),
              createHmac(toLowerCase(request.partner), request.rawBody))

\* the payload of the webhook request has a customer with an id and a name,
\* a positive amount and a currency
ValidPayload ==
  /\ request.rawBody \in 1..Len(Bodies)
  /\ Bodies[request.rawBody].customer # None
  /\ Bodies[request.rawBody].customer[1].id # None
  /\ Bodies[request.rawBody].customer[1].name # None
  /\ Bodies[request.rawBody].amount > 0
  /\ Bodies[request.rawBody].currency # None

\* the webhook has created or updated no user and created no transaction
NoWebhookEffect == users \in UserStores /\ hookTransactions = << >>

\* C22: webhook authentication precedes any effect.  A webhook request whose
\* partner is not supported or whose signature does not verify is answered
\* with HTTP 400 and success false, and no user is created or updated and no
\* transaction is created for it; a user or a transaction is written only for
\* a request that passed the partner check, the signature verification and the
\* validation of its payload.
C22_AuthenticationPrecedesEffects ==
  /\ (wpc \notin {"idle", "received"} /\ ~Authentic) =>
       /\ wpc = "done"
       /\ response # None
       /\ response[1].status = 400
       /\ response[1].success = FALSE
       /\ NoWebhookEffect
  /\ ~NoWebhookEffect => (Authentic /\ ValidPayload)

\* C22, its case: a request of a registered partner with a valid payload and
\* a signature header that is not the HMAC of its body has been rejected
C22_Witness ==
  /\ wpc = "done"
  /\ toLowerCase(request.partner) \in partners
  /\ ValidPayload
  /\ request.signature # None
  /\ request.signature[1] # << >>
  /\ ~Authentic
  /\ response[1].status = 400
  /\ NoWebhookEffect

\* three consecutive transactions of the ledger, already settled, each with a
\* failed request to the external classifier
FailedInARow(n) ==
  \E s \in 1..Len(categorized) :
     /\ s + n - 1 <= Len(categorized)
     /\ \A j \in s..(s + n - 1) : hist.attempt[j].failed

\* C23: the circuit breaker governs the direct strategy.  Once
\* MAX_CONSECUTIVE_FAILURES consecutive attempts of a direct run have failed
\* at the external classifier, no further request is made in that run, and
\* every transaction settled from then on has the fallback result.
C23_BreakerGovernsDirect ==
  [][(strategy = "direct" /\ FailedInARow(MAX_CONSECUTIVE_FAILURES)) =>
       /\ inflight' \subseteq inflight
       /\ \A i \in (Len(categorized) + 1)..Len(categorized') :
             categorized'[i] = FallbackResult(ledger[i])]_vars

\* the transactions of the groups that a grouped run has left unresolved
Unresolved == {i \in 1..Len(ledger) : aiMap[KeyOf(ledger[i])] = None}

\* C24: the deadline of the grouped strategy is looked at between batches.
\* The passing of the deadline leaves the requests in flight and the position
\* of the loop alone; once the head of the loop has found the deadline passed,
\* the run is over, no request is in flight or is started, and every
\* transaction of an unresolved group has the fallback result of its own
\* description with confidence 0.3.
C24_DeadlineBetweenBatches ==
  [][/\ (~deadlinePassed /\ deadlinePassed') =>
          (inflight' = inflight /\ opc' = opc /\ aiMap' = aiMap)
     /\ hist.exit = "deadline" => inflight' \subseteq inflight
     /\ hist'.exit = "deadline" =>
          /\ strategy' = "grouped" /\ opc' = "done" /\ inflight' = {}
          /\ \A i \in Unresolved' :
                /\ categorized'[i] = FallbackResult(ledger'[i])
                /\ categorized'[i].confidence = Some(30)]_vars

\* C24, its case: a grouped run ended at the deadline with a group resolved by
\* the external classifier and a group unresolved
C24_Witness ==
  /\ hist.exit = "deadline"
  /\ Unresolved # {}
  /\ \E i \in 1..Len(ledger) :
        /\ i \notin Unresolved
        /\ categorized[i].confidence = Some(95)

\* C25: eligibility in the direct strategy.  Requests to the external
\* classifier are made only for the first min(30, n) transactions of the
\* ledger; every transaction after the 30th is settled with the fallback
\* result (confidence 0.3) and no request was ever made for it.
C25_DirectEligibility ==
  strategy = "direct" =>
    /\ \A q \in inflight : q[1] <= Min2(MAX_AI_CALLS_LIMIT, Len(ledger))
    /\ \A k \in DOMAIN tasks :
          Slot(k) > MAX_AI_CALLS_LIMIT =>
            (tasks[k].pc = "done" /\ tasks[k].result = Some(FallbackResult(ledger[Slot(k)])))
    /\ \A i \in 1..Len(ledger) :
          i > MAX_AI_CALLS_LIMIT =>
            /\ hist.attempt[i] = FreshAttempt
            /\ i <= Len(categorized) =>
                 /\ categorized[i] = FallbackResult(ledger[i])
                 /\ categorized[i].confidence = Some(30)

\* C25, its case: a direct run of a ledger of more than 30 transactions is
\* over, with a transaction classified by the external classifier
C25_Witness ==
  /\ strategy = "direct"
  /\ opc = "done"
  /\ Len(ledger) > MAX_AI_CALLS_LIMIT
  /\ Len(categorized) = Len(ledger)
  /\ \E i \in 1..MAX_AI_CALLS_LIMIT : hist.attempt[i].catFrom = "external"

\* the requests that a step starts
Started == inflight' \ inflight

\* C26: the calls of the grouped strategy.  The representatives have
\* pairwise different normalized keys; a request is started only for a
\* representative whose key has no entry yet, the category request before any
\* request of that representative has returned and the merchant request after
\* its category request and before its merchant request has returned; an
\* entry, once set, is not replaced.  So each key has at most one category
\* request and one merchant request.  At the end of the run every transaction
\* whose key has an entry carries that entry.
C26_OneRepresentativePerKey ==
  [][strategy' = "grouped" =>
       /\ \A m \in 1..Len(uniqueTx'), n \in 1..Len(uniqueTx') :
             KeyOf(ledger[uniqueTx'[m]]) = KeyOf(ledger[uniqueTx'[n]]) => m = n
       /\ Len(uniqueTx') <= Cardinality(Keys(ledger))
       /\ \A q \in Started :
             /\ \E m \in 1..Len(uniqueTx) : q[1] = uniqueTx[m]
             /\ aiMap[KeyOf(ledger[q[1]])] = None
             /\ hist.attempt[q[1]].merFrom = "none"
             /\ (q[2] = "category") = (hist.attempt[q[1]].catFrom = "none")
       /\ \A k \in DOMAIN aiMap : aiMap[k] # None => aiMap'[k] = aiMap[k]
       /\ opc' = "done" =>
            \A i \in 1..Len(ledger) :
               aiMap'[KeyOf(ledger[i])] # None =>
                 EntryOf(categorized'[i]) = aiMap'[KeyOf(ledger[i])][1]]_vars

\* C26, its case: a grouped run is over; two transactions with different
\* descriptions share a key whose representative was classified by the
\* external classifier, and both carry its result
C26_Witness ==
  /\ strategy = "grouped"
  /\ opc = "done"
  /\ \E i \in 1..Len(ledger), j \in 1..Len(ledger) :
        /\ ledger[i].description # ledger[j].description
        /\ KeyOf(ledger[i]) = KeyOf(ledger[j])
        /\ aiMap[KeyOf(ledger[i])] # None
        /\ aiMap[KeyOf(ledger[i])][1].confidence = Some(95)
        /\ EntryOf(categorized[i]) = EntryOf(categorized[j])
        /\ categorized[i].confidence = Some(95)

\* C27: the frame of the orchestrator.  The ledger that categorizeTransactions
\* returns has as many transactions as its input, in the same order, each
\* with the fields of the input transaction unchanged and with category,
\* merchant and confidence present.
C27_OrchestratorFrame ==
  /\ Len(categorized) <= Len(ledger)
  /\ \A i \in 1..Len(categorized) : categorized[i].tx = ledger[i]
  /\ opc = "done" =>
       /\ Len(categorized) = Len(ledger)
       /\ \A i \in 1..Len(ledger) :
             /\ DOMAIN categorized[i] = {"tx", "category", "merchant", "confidence"}
             /\ categorized[i].category # None
             /\ categorized[i].merchant # None
             /\ categorized[i].confidence # None

\* C27, its case: a run on a ledger of several transactions is over, with
\* results of the external classifier and of the fallback in the returned ledger
C27_Witness ==
  /\ opc = "done"
  /\ Len(ledger) > 1
  /\ categorized[1].confidence = Some(95)
  /\ \E i \in 1..Len(ledger) : categorized[i].confidence = Some(30)

\* C28: the order of the pipeline.  Whenever generateAnalysis has been called
\* by the service, in processStatement or in uploadAndProcessStatement, the
\* ledger it was called on had passed through categorizeTransactions: each of
\* its transactions has a category, a merchant and a confidence.
C28_ClassifiedBeforeAggregation ==
  hist.aggregated # None =>
    \A i \in 1..Len(hist.aggregated[1]) : Classified(hist.aggregated[1][i])

\* C29: the persisted classification is total.  When processStatement has
\* returned, every transaction row of the statement has a category, a
\* merchant and a confidence, also when the ledger has the same transaction
\* twice.
C29_PersistedClassificationTotal ==
  spc = "returned" => \A r \in 1..Len(rows) : Classified(rows[r])

\* the job of the statement is over: processStatementAsync has returned
JobOver == cpc = "done"

\* C30: a delete racing with the job.  In every interleaving of
\* deleteStatement with the job of the statement, once the delete has
\* answered 200 the statement record does not exist, whatever the job does
\* then, and once the job is over as well no row of the statement is left.
C30_DeleteWinsRace ==
  dpc = "deleted" =>
    /\ status = "none"
    /\ errorMessage = None
    /\ analysisResult = None
    /\ JobOver => rows = << >>

\* C30, its case: the delete has answered 200 after the job had saved the
\* rows of the statement, and the job went on and came to its end
C30_Witness ==
  /\ dpc = "deleted"
  /\ JobOver
  /\ spc \in {"returned", "threw"}
  /\ Len(categorized) > 0

====
